---- MODULE Spec2Model ----
(***************************************************************************)
(* GerenciadorDataLake (src/src/desafio2/gerenciador_data_lake.py): the    *)
(* partitioned data-lake store.  The state is the directory tree under the *)
(* base path plus the wall clock; every public method is one action.       *)
(*                                                                         *)
(* Text.  A Python str is a sequence of atoms.  An atom is a maximal run   *)
(* of letters (one TLA+ string, "getGuestChecks") or one single digit or   *)
(* punctuation character ("2", "=", "/", "_", ".").  Every concatenation   *)
(* the code performs puts a punctuation character between two texts, so   *)
(* texts built from such inputs stay in that form and equality of atom     *)
(* sequences is equality of the strings.                                   *)
(***************************************************************************)
EXTENDS Integers, Sequences, FiniteSets, TLC

VARIABLES
    dirs,       \* the directories that exist (a set of paths)
    files,      \* the regular files that exist: path -> text
    agora,      \* seconds elapsed on the wall clock since construction
    retorno,    \* outcome of the most recent call (arguments, result, raised)
    historico,  \* the store calls that returned normally: the request, the clock
                \* reading, the path returned and the text found there on return
    nArmazenar, \* number of armazenar_resposta_api calls made so far
    nSucessos,  \* number of those calls that returned normally
    nLimpezas,  \* number of limpar_dados_antigos calls made so far
    par,        \* the pair of partition keys of the partition-path study
    escritores, \* the armazenar_resposta_api calls in progress at the same time:
                \* for each writer its arguments, its position and its locals
    gerenciador \* whether a GerenciadorDataLake exists: a construction has returned

vars == <<dirs, files, agora, retorno, historico, nArmazenar, nSucessos, nLimpezas, par,
          escritores, gerenciador>>

----------------------------------------------------------------------------
(* Sequences and text *)

Dig(n) == <<"0", "1", "2", "3", "4", "5", "6", "7", "8", "9">>[n + 1]

Digitos == {Dig(n) : n \in 0..9}

DigVal(a) == CHOOSE n \in 0..9 : Dig(n) = a

\* f"{n}" for n >= 0
RECURSIVE Dec(_)
Dec(n) ==
    IF n < 10 THEN <<Dig(n)>> ELSE Dec(n \div 10) \o <<Dig(n % 10)>>

\* f"{n:02d}"
Pad2(n) ==
    IF n < 10 THEN <<"0", Dig(n)>> ELSE Dec(n)

\* strftime %Y
Pad4(n) ==
    IF n < 10 THEN <<"0", "0", "0">> \o Dec(n)
    ELSE IF n < 100 THEN <<"0", "0">> \o Dec(n)
    ELSE IF n < 1000 THEN <<"0">> \o Dec(n)
    ELSE Dec(n)

\* int(text): [ok, n]; ok is FALSE when int() raises ValueError
RECURSIVE IntDigitos(_)
IntDigitos(s) ==
    IF Len(s) = 1 THEN DigVal(s[1])
    ELSE IntDigitos(SubSeq(s, 1, Len(s) - 1)) * 10 + DigVal(s[Len(s)])

IntDe(s) ==
    LET corpo == IF s # <<>> /\ s[1] \in {"-", "+"} THEN Tail(s) ELSE s
    IN  IF corpo = <<>> \/ \E i \in 1..Len(corpo) : corpo[i] \notin Digitos
        THEN [ok |-> FALSE, n |-> 0]
        ELSE [ok |-> TRUE,
              n |-> IF s[1] = "-" THEN 0 - IntDigitos(corpo) ELSE IntDigitos(corpo)]

\* text.split(sep): the pieces between occurrences of the atom sep
RECURSIVE Split(_, _)
Split(s, sep) ==
    IF \A i \in 1..Len(s) : s[i] # sep THEN <<s>>
    ELSE LET i == CHOOSE j \in 1..Len(s) : s[j] = sep /\ \A k \in 1..(j - 1) : s[k] # sep
         IN  <<SubSeq(s, 1, i - 1)>> \o Split(SubSeq(s, i + 1, Len(s)), sep)

\* text.startswith(prefix)
StartsWith(s, prefix) ==
    Len(s) >= Len(prefix) /\ SubSeq(s, 1, Len(prefix)) = prefix

EndsWith(s, suffix) ==
    Len(s) >= Len(suffix) /\ SubSeq(s, Len(s) - Len(suffix) + 1, Len(s)) = suffix

\* every enumeration of a finite set (the orders in which a directory may be listed)
RECURSIVE Ordens(_)
Ordens(S) ==
    IF S = {} THEN {<<>>}
    ELSE UNION {{<<x>> \o o : o \in Ordens(S \ {x})} : x \in S}

----------------------------------------------------------------------------
(* datetime.date: a date is its proleptic Gregorian ordinal *)

DiasAntesDoMes == <<0, 31, 59, 90, 120, 151, 181, 212, 243, 273, 304, 334>>

DiasNoMes == <<31, 28, 31, 30, 31, 30, 31, 31, 30, 31, 30, 31>>

Bissexto(y) == y % 4 = 0 /\ (y % 100 # 0 \/ y % 400 = 0)

DiasDoMes(y, m) == IF m = 2 /\ Bissexto(y) THEN 29 ELSE DiasNoMes[m]

\* date(y, m, d) raises ValueError unless this holds
DataValida(y, m, d) ==
    /\ y \in 1..9999
    /\ m \in 1..12
    /\ d >= 1 /\ d <= DiasDoMes(y, m)

\* date(y, m, d).toordinal()
ymd2ord(y, m, d) ==
    (y - 1) * 365 + ((y - 1) \div 4) - ((y - 1) \div 100) + ((y - 1) \div 400)
    + DiasAntesDoMes[m] + (IF m > 2 /\ Bissexto(y) THEN 1 ELSE 0) + d

\* date.fromordinal(n): the fields year, month, day
ord2ymd(n) ==
    LET n0 == n - 1
        n400 == n0 \div 146097
        r400 == n0 % 146097
        n100 == r400 \div 36524
        r100 == r400 % 36524
        n4 == r100 \div 1461
        r4 == r100 % 1461
        n1 == r4 \div 365
        r1 == r4 % 365
        y == n400 * 400 + 1 + n100 * 100 + n4 * 4 + n1
        leap == n1 = 3 /\ (n4 # 24 \/ n100 = 3)
        m0 == (r1 + 50) \div 32
        p0 == DiasAntesDoMes[m0] + (IF m0 > 2 /\ leap THEN 1 ELSE 0)
        m == IF p0 > r1 THEN m0 - 1 ELSE m0
        p == IF p0 > r1
             THEN p0 - (DiasNoMes[m] + (IF m = 2 /\ leap THEN 1 ELSE 0))
             ELSE p0
    IN  IF n1 = 4 \/ n100 = 4
        THEN [year |-> y - 1, month |-> 12, day |-> 31]
        ELSE [year |-> y, month |-> m, day |-> r1 - p + 1]

\* date.max.toordinal()
OrdMax == 3652059

\* date.isoformat()
isoformat(d) ==
    LET f == ord2ymd(d)
    IN  Pad4(f.year) \o <<"-">> \o Pad2(f.month) \o <<"-">> \o Pad2(f.day)

----------------------------------------------------------------------------
(* Python values.  A payload is a document: str, int, None, list, dict with *)
(* str keys (insertion-ordered).  "obj" is a value the json module has no  *)
(* encoding for (a date, a Decimal), known by its str(); "ciclo" is a     *)
(* reference from inside a container back to that container.               *)

PyNone == [t |-> "none", s |-> <<>>, d |-> <<>>]

PyStr(s) == [t |-> "str", s |-> s, d |-> <<>>]

PyInt(n) == [t |-> "int", s |-> Dec(n), d |-> <<>>]

PyObj(s) == [t |-> "obj", s |-> s, d |-> <<>>]

PyCiclo == [t |-> "ciclo", s |-> <<>>, d |-> <<>>]

\* a dict: its items <<[k |-> key, v |-> value], ...>> in insertion order
PyDict(itens) == [t |-> "dict", s |-> <<>>, d |-> itens]

PyList(vals) == [t |-> "list", s |-> <<>>, d |-> [i \in 1..Len(vals) |-> [k |-> <<>>, v |-> vals[i]]]]

Item(k, v) == [k |-> k, v |-> v]

Chaves(itens) == {itens[i].k : i \in 1..Len(itens)}

\* d[k] for a key that is present
Valor(itens, k) == itens[CHOOSE i \in 1..Len(itens) : itens[i].k = k].v

\* d[k] = v: replaces the value in place, or appends a new key
DictSet(itens, k, v) ==
    IF k \in Chaves(itens)
    THEN [i \in 1..Len(itens) |-> IF itens[i].k = k THEN Item(k, v) ELSE itens[i]]
    ELSE Append(itens, Item(k, v))

\* d.update(outro)
RECURSIVE DictUpdate(_, _)
DictUpdate(itens, outro) ==
    IF outro = <<>> THEN itens
    ELSE DictUpdate(DictSet(itens, Head(outro).k, Head(outro).v), Tail(outro))

\* a == b on Python values: dicts compare without regard to insertion order
RECURSIVE PyEq(_, _)
PyEq(a, b) ==
    /\ a.t = b.t
    /\ a.s = b.s
    /\ Len(a.d) = Len(b.d)
    /\ IF a.t = "dict"
       THEN /\ Chaves(a.d) = Chaves(b.d)
            /\ \A i \in 1..Len(a.d) : PyEq(a.d[i].v, Valor(b.d, a.d[i].k))
       ELSE \A i \in 1..Len(a.d) : PyEq(a.d[i].v, b.d[i].v)

----------------------------------------------------------------------------
(* json.dump / json.dumps / json.load *)

\* code-point order of the characters that occur in payload keys
Alfabeto == <<"a", "b", "x", "y">>

Ordinal(a) == CHOOSE i \in 1..Len(Alfabeto) : Alfabeto[i] = a

\* k1 < k2 on str
RECURSIVE MenorStr(_, _)
MenorStr(k1, k2) ==
    IF k2 = <<>> THEN FALSE
    ELSE IF k1 = <<>> THEN TRUE
    ELSE IF Head(k1) = Head(k2) THEN MenorStr(Tail(k1), Tail(k2))
    ELSE Ordinal(Head(k1)) < Ordinal(Head(k2))

\* sorted(d.items()) (sort_keys=True)
RECURSIVE OrdenarItens(_)
OrdenarItens(itens) ==
    IF itens = <<>> THEN <<>>
    ELSE LET m == CHOOSE i \in 1..Len(itens) :
                      \A j \in 1..Len(itens) : j = i \/ MenorStr(itens[i].k, itens[j].k)
             resto == [j \in 1..(Len(itens) - 1) |-> IF j < m THEN itens[j] ELSE itens[j + 1]]
         IN  <<itens[m]>> \o OrdenarItens(resto)

\* the characters of a JSON string literal
RECURSIVE Escapar(_)
Escapar(s) ==
    IF s = <<>> THEN <<>>
    ELSE (IF Head(s) \in {"\"", "\\"} THEN <<"\\", Head(s)>> ELSE <<Head(s)>>) \o Escapar(Tail(s))

Literal(s) == <<"\"">> \o Escapar(s) \o <<"\"">>

\* The encoder streams: [ok, txt] is whether encoding completed and the text
\* emitted (by a failing call: the text emitted before the exception).
\* indent: indent=2 (a line break after every bracket and comma);
\* sort: sort_keys; dflt: default=str.
RECURSIVE Codificar(_, _, _, _), CodificarItens(_, _, _, _, _)
Codificar(v, indent, sort, dflt) ==
    LET abre == IF v.t = "dict" THEN "{" ELSE "["
        fecha == IF v.t = "dict" THEN "}" ELSE "]"
        nl == IF indent THEN <<"\n">> ELSE <<>>
        fechar(r) ==
            [ok |-> r.ok,
             txt |-> <<abre>> \o nl \o r.txt \o (IF r.ok THEN nl \o <<fecha>> ELSE <<>>)]
    IN  CASE v.t = "str" -> [ok |-> TRUE, txt |-> Literal(v.s)]
          [] v.t = "int" -> [ok |-> TRUE, txt |-> v.s]
          [] v.t = "none" -> [ok |-> TRUE, txt |-> <<"null">>]
          [] v.t = "obj" -> IF dflt THEN [ok |-> TRUE, txt |-> Literal(v.s)]
                            ELSE [ok |-> FALSE, txt |-> <<>>]
          [] v.t = "ciclo" -> [ok |-> FALSE, txt |-> <<>>]
          [] v.t \in {"dict", "list"} ->
                IF v.d = <<>> THEN [ok |-> TRUE, txt |-> <<abre, fecha>>]
                ELSE fechar(CodificarItens(IF sort /\ v.t = "dict" THEN OrdenarItens(v.d) ELSE v.d,
                                           v.t = "dict", indent, sort, dflt))

CodificarItens(its, comChave, indent, sort, dflt) ==
    LET chave == IF comChave THEN Literal(Head(its).k) \o <<":", " ">> ELSE <<>>
        sep == IF indent THEN <<",", "\n">> ELSE <<",", " ">>
        juntar(r, rr) == [ok |-> rr.ok, txt |-> chave \o r.txt \o sep \o rr.txt]
        seguir(r) ==
            IF ~r.ok \/ Len(its) = 1 THEN [ok |-> r.ok, txt |-> chave \o r.txt]
            ELSE juntar(r, CodificarItens(Tail(its), comChave, indent, sort, dflt))
    IN  seguir(Codificar(Head(its).v, indent, sort, dflt))

Brancos == {" ", "\n"}

RECURSIVE SaltarBrancos(_, _)
SaltarBrancos(txt, i) ==
    IF i <= Len(txt) /\ txt[i] \in Brancos THEN SaltarBrancos(txt, i + 1) ELSE i

Falha == [ok |-> FALSE, v |-> PyNone, i |-> 0]

\* the number of backslashes that immediately precede position j, from i on
BarrasAntes(txt, i, j) ==
    j - 1 - (CHOOSE k \in (i - 1)..(j - 1) :
                 /\ k = i - 1 \/ txt[k] # "\\"
                 /\ \A m \in (k + 1)..(j - 1) : txt[m] = "\\")

\* the position of the quote that closes the literal whose text starts at i,
\* looking from position de on: the first quote no backslash escapes; 0 if none
RECURSIVE FimLiteral(_, _, _)
FimLiteral(txt, i, de) ==
    IF \A j \in de..Len(txt) : txt[j] # "\"" THEN 0
    ELSE LET j == CHOOSE n \in de..Len(txt) :
                      txt[n] = "\"" /\ \A m \in de..(n - 1) : txt[m] # "\""
         IN  IF BarrasAntes(txt, i, j) % 2 = 0 THEN j ELSE FimLiteral(txt, i, j + 1)

\* the text of a literal's body: every backslash gives way to the character after it
RECURSIVE Desescapar(_)
Desescapar(s) ==
    IF s = <<>> THEN <<>>
    ELSE IF Head(s) = "\\" THEN <<s[2]>> \o Desescapar(SubSeq(s, 3, Len(s)))
    ELSE <<Head(s)>> \o Desescapar(Tail(s))

\* the rest of a string literal whose opening quote precedes position i
LerLiteral(txt, i) ==
    LET texto(corpo) ==
            IF \A k \in 1..Len(corpo) : corpo[k] # "\\" THEN corpo ELSE Desescapar(corpo)
        ate(fim) ==
            IF fim = 0 THEN Falha
            ELSE [ok |-> TRUE, v |-> PyStr(texto(SubSeq(txt, i, fim - 1))), i |-> fim + 1]
    IN  ate(FimLiteral(txt, i, i))

RECURSIVE LerNumero(_, _, _)
LerNumero(txt, i, acc) ==
    IF i <= Len(txt) /\ txt[i] \in Digitos THEN LerNumero(txt, i + 1, Append(acc, txt[i]))
    ELSE [ok |-> TRUE, v |-> [t |-> "int", s |-> acc, d |-> <<>>], i |-> i]

\* the decoder: [ok, v, i] is whether a value starts at position i0 (after
\* white space), the value, and the position after it
RECURSIVE Decodificar(_, _), DecodificarMembros(_, _, _, _), DecodificarElementos(_, _, _, _)
Decodificar(txt, i0) ==
    LET em(i) ==
            IF i > Len(txt) THEN Falha
            ELSE CASE txt[i] = "{" -> DecodificarMembros(txt, SaltarBrancos(txt, i + 1), <<>>, TRUE)
                   [] txt[i] = "[" -> DecodificarElementos(txt, SaltarBrancos(txt, i + 1), <<>>, TRUE)
                   [] txt[i] = "\"" -> LerLiteral(txt, i + 1)
                   [] txt[i] = "null" -> [ok |-> TRUE, v |-> PyNone, i |-> i + 1]
                   [] txt[i] \in Digitos -> LerNumero(txt, i, <<>>)
                   [] OTHER -> Falha
    IN  em(SaltarBrancos(txt, i0))

DecodificarMembros(txt, i, acc, primeiro) ==
    LET depois(acc2, m) ==
            IF m > Len(txt) THEN Falha
            ELSE IF txt[m] = ","
                 THEN DecodificarMembros(txt, SaltarBrancos(txt, m + 1), acc2, FALSE)
            ELSE IF txt[m] = "}" THEN [ok |-> TRUE, v |-> PyDict(acc2), i |-> m + 1]
            ELSE Falha
        valor(k, v) ==
            IF ~v.ok THEN Falha
            ELSE depois(DictSet(acc, k.v.s, v.v), SaltarBrancos(txt, v.i))
        doisPontos(k, j) ==
            IF j > Len(txt) \/ txt[j] # ":" THEN Falha
            ELSE valor(k, Decodificar(txt, j + 1))
        chave(k) ==
            IF ~k.ok THEN Falha ELSE doisPontos(k, SaltarBrancos(txt, k.i))
    IN  IF i > Len(txt) THEN Falha
        ELSE IF primeiro /\ txt[i] = "}" THEN [ok |-> TRUE, v |-> PyDict(acc), i |-> i + 1]
        ELSE IF txt[i] # "\"" THEN Falha
        ELSE chave(LerLiteral(txt, i + 1))

DecodificarElementos(txt, i, acc, primeiro) ==
    LET depois(acc2, m) ==
            IF m > Len(txt) THEN Falha
            ELSE IF txt[m] = ","
                 THEN DecodificarElementos(txt, SaltarBrancos(txt, m + 1), acc2, FALSE)
            ELSE IF txt[m] = "]" THEN [ok |-> TRUE, v |-> PyList(acc2), i |-> m + 1]
            ELSE Falha
        valor(v) ==
            IF ~v.ok THEN Falha
            ELSE depois(Append(acc, v.v), SaltarBrancos(txt, v.i))
    IN  IF i > Len(txt) THEN Falha
        ELSE IF primeiro /\ txt[i] = "]" THEN [ok |-> TRUE, v |-> PyList(acc), i |-> i + 1]
        ELSE valor(Decodificar(txt, i))

\* json.load(arquivo): [ok, v]; ok is FALSE when JSONDecodeError is raised
json_load(txt) ==
    LET inteiro(r) ==
            IF r.ok /\ SaltarBrancos(txt, r.i) > Len(txt)
            THEN [ok |-> TRUE, v |-> r.v]
            ELSE [ok |-> FALSE, v |-> PyNone]
    IN  inteiro(Decodificar(txt, 1))

\* a lone surrogate (U+D800): a character a Python str can hold and UTF-8 has
\* no encoding for
Substituto == "U+D800"

\* what the encoder emits under ensure_ascii=True (the default of json.dumps)
\* where ensure_ascii=False emits the character itself: the escape \ud800
RECURSIVE ensure_ascii(_)
ensure_ascii(txt) ==
    IF \A i \in 1..Len(txt) : txt[i] # Substituto THEN txt
    ELSE LET i == CHOOSE n \in 1..Len(txt) :
                      txt[n] = Substituto /\ \A m \in 1..(n - 1) : txt[m] # Substituto
         IN  SubSeq(txt, 1, i - 1) \o <<"\\", "u", "d", "8", "0", "0">>
             \o ensure_ascii(SubSeq(txt, i + 1, Len(txt)))

\* text.encode('utf-8') does not raise UnicodeEncodeError
utf8_ok(txt) == \A i \in 1..Len(txt) : txt[i] # Substituto

\* What a file opened with encoding='utf-8' holds of txt when json.dump meets
\* a string UTF-8 cannot encode.  json.dump writes the text chunk by chunk, a
\* string literal being one chunk (as a dict key or value) or the end of one
\* that starts at the bracket or comma before it (as a list element); the
\* write of the chunk that holds the character raises, the chunks before it
\* are in the file when it is closed.
antes_do_substituto(txt) ==
    LET aspas == {j \in 1..Len(txt) : txt[j] = "\"" /\ BarrasAntes(txt, 1, j) % 2 = 0}
        fora(m) == Cardinality({j \in aspas : j < m}) % 2 = 0
        i == CHOOSE n \in 1..Len(txt) :
                 txt[n] = Substituto /\ \A m \in 1..(n - 1) : txt[m] # Substituto
        \* the quote that opens the literal the character is in
        q == CHOOSE j \in aspas : j < i /\ \A k \in aspas : k < i => k <= j
        \* the last character before that literal
        p == CHOOSE k \in 1..(q - 1) :
                 txt[k] \notin Brancos /\ \A m \in (k + 1)..(q - 1) : txt[m] \in Brancos
        abre(de, ate) == {m \in de..ate : txt[m] \in {"{", "["} /\ fora(m)}
        fecha(de, ate) == {m \in de..ate : txt[m] \in {"}", "]"} /\ fora(m)}
        \* the bracket that is open at q
        b == CHOOSE m \in abre(1, q - 1) :
                 /\ Cardinality(abre(m + 1, q - 1)) = Cardinality(fecha(m + 1, q - 1))
                 /\ \A n \in abre(m + 1, q - 1) :
                        Cardinality(abre(n + 1, q - 1)) # Cardinality(fecha(n + 1, q - 1))
    IN  IF txt[b] = "[" THEN SubSeq(txt, 1, p - 1) ELSE SubSeq(txt, 1, q - 1)

\* len(text.encode('utf-8')) of an encoder output whose strings are made of
\* one-character atoms: every atom is one byte except the literal null
RECURSIVE Comprimento(_)
Comprimento(txt) ==
    IF txt = <<>> THEN 0
    ELSE (IF Head(txt) = "null" THEN 4 ELSE 1) + Comprimento(Tail(txt))

\* hashlib.md5(text).hexdigest(): an injective image of the text. A digest
\* holds no quote and no backslash: the image writes them as "q" and "r",
\* which are not characters of the texts digested.
md5(txt) ==
    <<"md5">> \o [i \in 1..Len(txt) |->
                     IF txt[i] = "\"" THEN "q" ELSE IF txt[i] = "\\" THEN "r" ELSE txt[i]]

----------------------------------------------------------------------------
(* pathlib.Path: a path is the sequence of its components *)

Raiz == <<"/">>

\* the components of a path text: pathlib drops empty and "." components
Componentes(s) ==
    SelectSeq(Split(s, "/"), LAMBDA c : c # <<>> /\ c # <<".">>)

\* p / s: a text that starts with the separator is absolute and replaces p
Barra(p, s) ==
    IF s # <<>> /\ s[1] = "/" THEN <<Raiz>> \o Componentes(s) ELSE p \o Componentes(s)

Pai(p) == SubSeq(p, 1, Len(p) - 1)

Nome(p) == p[Len(p)]

\* Path.stem: the name without its last suffix
Stem(nome) ==
    LET pontos == {i \in 2..(Len(nome) - 1) : nome[i] = "."}
    IN  IF pontos = {} THEN nome
        ELSE SubSeq(nome, 1, (CHOOSE i \in pontos : \A j \in pontos : j <= i) - 1)

\* str(p)
RECURSIVE str_path(_)
str_path(p) ==
    IF p = <<>> THEN <<".">>
    ELSE IF Len(p) = 1 THEN p[1]
    ELSE IF p[1] = Raiz THEN Raiz \o str_path(Tail(p))
    ELSE p[1] \o <<"/">> \o str_path(Tail(p))

Prefixos(p) == {SubSeq(p, 1, n) : n \in 1..Len(p)}

\* whether q lies strictly beneath directory p
Abaixo(q, p) == Len(q) > Len(p) /\ SubSeq(q, 1, Len(p)) = p

\* the entries of directory p (files and directories)
Filhos(D, F, p) == {q \in D \cup DOMAIN F : Len(q) = Len(p) + 1 /\ Pai(q) = p}

\* p.mkdir(parents=True, exist_ok=True) succeeds unless a regular file is in the way
mkdir_ok(F, p) == \A q \in Prefixos(p) : q \notin DOMAIN F

mkdir(D, p) == D \cup Prefixos(p)

\* open(p, 'w') succeeds when the parent is a directory and p is not one
open_ok(D, F, p) == Pai(p) \in D /\ p \notin D /\ Pai(p) \notin DOMAIN F

\* the file p holding txt (created, or truncated and rewritten)
escrever(F, p, txt) == [q \in DOMAIN F \cup {p} |-> IF q = p THEN txt ELSE F[q]]

----------------------------------------------------------------------------
(* Configuration and clock *)

\* GerenciadorDataLake.__init__: caminho_base = "dados/data_lake"
caminho_base == << <<"dados">>, <<"data", "_", "lake">> >>

Zonas == {"raw", "processed", "schemas", "metadata", "archive", "temp"}

estrutura_pastas(zona) ==
    CASE zona = "raw" -> <<"dados", "_", "brutos">>
      [] zona = "processed" -> <<"dados", "_", "processados">>
      [] zona = "schemas" -> <<"esquemas">>
      [] zona = "metadata" -> <<"metadados">>
      [] zona = "archive" -> <<"arquivo">>
      [] zona = "temp" -> <<"temporario">>

endpoints_api ==
    { <<"bilgetFiscalInvoice">>, <<"getGuestChecks">>, <<"getChargeBack">>,
      <<"getTransactions">>, <<"getCashManagementDetails">> }

\* the wall clock at construction: 2024-01-01 23:59:59
HojeInicial == ymd2ord(2024, 1, 1)

SegundoInicial == 23 * 3600 + 59 * 60 + 59

\* datetime.now() when t seconds have elapsed: the date and the second of the day
now(t) ==
    [ dia |-> HojeInicial + ((SegundoInicial + t) \div 86400),
      seg |-> (SegundoInicial + t) % 86400 ]

\* timestamp.strftime('%Y%m%d_%H%M%S')
strftime(ts) ==
    LET f == ord2ymd(ts.dia)
    IN  Pad4(f.year) \o Pad2(f.month) \o Pad2(f.day) \o <<"_">>
        \o Pad2(ts.seg \div 3600) \o Pad2((ts.seg % 3600) \div 60) \o Pad2(ts.seg % 60)

\* timestamp.isoformat(), the clock read to the whole second
isoformat_dt(ts) ==
    isoformat(ts.dia) \o <<"T">> \o Pad2(ts.seg \div 3600) \o <<":">>
    \o Pad2((ts.seg % 3600) \div 60) \o <<":">> \o Pad2(ts.seg % 60)

----------------------------------------------------------------------------
(* Construction *)

\* _criar_estrutura_api: one example partition per known endpoint, for today
criar_estrutura_api(D, caminho_pasta, hoje) ==
    LET f == ord2ymd(hoje)
    IN  D \cup UNION { mkdir({}, << >> \o caminho_pasta \o
                           << e,
                              <<"ano", "=">> \o Dec(f.year),
                              <<"mes", "=">> \o Pad2(f.month),
                              <<"dia", "=">> \o Pad2(f.day) >>) : e \in endpoints_api }

\* _criar_estrutura_base: the base path, the six zone directories and, under
\* raw and processed, the example partitions
criar_estrutura_base(D, hoje) ==
    LET comZonas == mkdir(D, caminho_base)
                    \cup {Barra(caminho_base, estrutura_pastas(z)) : z \in Zonas}
        comRaw == criar_estrutura_api(comZonas, Barra(caminho_base, estrutura_pastas("raw")), hoje)
    IN  criar_estrutura_api(comRaw, Barra(caminho_base, estrutura_pastas("processed")), hoje)

----------------------------------------------------------------------------
(* armazenar_resposta_api *)

\* a digest taken over the text in insertion order of the keys
_calcular_hash_sem_ordenar(dados) ==
    LET r == Codificar(dados, FALSE, FALSE, TRUE)
    IN  [ok |-> r.ok, txt |-> md5(ensure_ascii(r.txt))]

\* _calcular_hash: md5 of json.dumps(dados, sort_keys=True, default=str);
\* [ok, txt]: ok is FALSE when json.dumps raises
_calcular_hash(dados) ==
    LET r == Codificar(dados, FALSE, TRUE, TRUE)
    IN  [ok |-> r.ok, txt |-> md5(ensure_ascii(r.txt))]

\* a partition directory whose month and day are not zero-padded
caminho_particao_sem_zeros(endpoint, data_negocio, id_loja) ==
    LET f == ord2ymd(data_negocio)
        p1 == Barra(caminho_base, estrutura_pastas("raw"))
        p2 == Barra(p1, endpoint)
        p3 == Barra(p2, <<"ano", "=">> \o Dec(f.year))
        p4 == Barra(p3, <<"mes", "=">> \o Dec(f.month))
        p5 == Barra(p4, <<"dia", "=">> \o Dec(f.day))
    IN  Barra(p5, <<"loja", "=">> \o id_loja)

\* lines 103-109: the partition directory of a record
caminho_particao_armazenar(endpoint, data_negocio, id_loja) ==
    LET f == ord2ymd(data_negocio)
        p1 == Barra(caminho_base, estrutura_pastas("raw"))
        p2 == Barra(p1, endpoint)
        p3 == Barra(p2, <<"ano", "=">> \o Dec(f.year))
        p4 == Barra(p3, <<"mes", "=">> \o Pad2(f.month))
        p5 == Barra(p4, <<"dia", "=">> \o Pad2(f.day))
    IN  Barra(p5, <<"loja", "=">> \o id_loja)

\* a file name without the .json suffix
nome_arquivo_sem_sufixo(endpoint, id_loja, ts) ==
    endpoint \o <<"_">> \o id_loja \o <<"_">> \o strftime(ts)

\* line 114
nome_arquivo(endpoint, id_loja, ts) ==
    endpoint \o <<"_">> \o id_loja \o <<"_">> \o strftime(ts) \o <<".", "json">>

\* an envelope in which the writer's keys are kept and the caller adds the rest
metadados_escritor_prevalece(endpoint, hash_dados, tamanho_bytes, data_negocio, id_loja, ts, metadados_adicionais) ==
    DictUpdate(metadados_adicionais,
               << Item(<<"endpoint">>, PyStr(endpoint)),
                  Item(<<"data", "_", "negocio">>, PyStr(isoformat(data_negocio))),
                  Item(<<"id", "_", "loja">>, PyStr(id_loja)),
                  Item(<<"timestamp", "_", "ingestao">>, PyStr(isoformat_dt(ts))),
                  Item(<<"versao", "_", "esquema">>, PyStr(<<"1", ".", "0">>)),
                  Item(<<"hash", "_", "dados">>, PyStr(hash_dados)),
                  Item(<<"tamanho", "_", "bytes">>, PyInt(tamanho_bytes)) >>)

\* lines 118-133: the envelope, given the hash and the size computed on lines
\* 125-126; metadados_adicionais is a dict's items, <<>> for None
metadados(endpoint, hash_dados, tamanho_bytes, data_negocio, id_loja, ts, metadados_adicionais) ==
    DictUpdate(<< Item(<<"endpoint">>, PyStr(endpoint)),
                  Item(<<"data", "_", "negocio">>, PyStr(isoformat(data_negocio))),
                  Item(<<"id", "_", "loja">>, PyStr(id_loja)),
                  Item(<<"timestamp", "_", "ingestao">>, PyStr(isoformat_dt(ts))),
                  Item(<<"versao", "_", "esquema">>, PyStr(<<"1", ".", "0">>)),
                  Item(<<"hash", "_", "dados">>, PyStr(hash_dados)),
                  Item(<<"tamanho", "_", "bytes">>, PyInt(tamanho_bytes)) >>,
               metadados_adicionais)

\* The file system may refuse an operation of a call (permission denied, disk
\* full): falha.linha is the source line whose operation raises OSError in the
\* call (0: none does), falha.corte the length of the text a failing write
\* leaves in the file.
SemFalha == [linha |-> 0, corte |-> 0]

\* a write that is taken to have completed whatever happened
escrita_sempre_completa(r, falha, linha) == TRUE

\* json.dump(obj, arquivo, ensure_ascii=False) on the given line returned: the
\* encoder completed (r.ok), the file (encoding='utf-8') could encode the text
\* and the file system took every write
escrita_completa(r, falha, linha) == r.ok /\ utf8_ok(r.txt) /\ falha.linha # linha

\* the text in the file when json.dump on the given line is over
texto_gravado(r, falha, linha) ==
    LET t == IF utf8_ok(r.txt) THEN r.txt ELSE antes_do_substituto(r.txt)
    IN  IF falha.linha = linha /\ falha.corte < Len(t) THEN SubSeq(t, 1, falha.corte)
        ELSE t

\* lines 170-172: the document the sidecar holds
metadados_completos(meta, caminho_arquivo) ==
    DictSet(DictSet(meta, <<"caminho", "_", "arquivo">>, PyStr(str_path(caminho_arquivo))),
            <<"nome", "_", "arquivo">>, PyStr(Nome(caminho_arquivo)))

\* a sidecar named after the day directory of the record as well
arquivo_metadados_com_dia(endpoint, caminho_arquivo) ==
    Barra(Barra(Barra(caminho_base, estrutura_pastas("metadata")), endpoint),
          <<"meta", "_">> \o Nome(Pai(Pai(caminho_arquivo))) \o <<"_">>
              \o Stem(Nome(caminho_arquivo)) \o <<".", "json">>)

\* lines 160-167: the path of the sidecar of the record file at caminho_arquivo
arquivo_metadados(endpoint, caminho_arquivo) ==
    Barra(Barra(Barra(caminho_base, estrutura_pastas("metadata")), endpoint),
          <<"meta", "_">> \o Stem(Nome(caminho_arquivo)) \o <<".", "json">>)

\* _salvar_metadados: the sidecar of the record file at caminho_arquivo;
\* [erro, linha, dirs, files]: whether it raised, on which line, and the tree
\* afterwards
_salvar_metadados(D, F, endpoint, meta, caminho_arquivo, falha) ==
    LET gravar(D2, arq, r) ==
            IF ~open_ok(D2, F, arq) \/ falha.linha = 174
            THEN [erro |-> TRUE, linha |-> 174, dirs |-> D2, files |-> F]
            ELSE [erro |-> ~escrita_completa(r, falha, 175),
                  linha |-> IF escrita_completa(r, falha, 175) THEN 0 ELSE 175,
                  dirs |-> D2, files |-> escrever(F, arq, texto_gravado(r, falha, 175))]
        em(caminho_metadados) ==
            IF ~mkdir_ok(F, caminho_metadados) \/ falha.linha = 163
            THEN [erro |-> TRUE, linha |-> 163, dirs |-> D, files |-> F]
            ELSE gravar(mkdir(D, caminho_metadados),
                        arquivo_metadados(endpoint, caminho_arquivo),
                        Codificar(PyDict(metadados_completos(meta, caminho_arquivo)),
                                  TRUE, FALSE, TRUE))
    IN  em(Barra(Barra(caminho_base, estrutura_pastas("metadata")), endpoint))

\* armazenar_resposta_api at clock reading ts on the tree (D, F):
\* [erro, linha, valor, dirs, files]; erro: the call raised, on line linha;
\* valor: the path returned
armazenar_resposta_api(D, F, ts, endpoint, dados, data_negocio, id_loja, metadados_adicionais, falha) ==
    LET falhou(DD, FF, linha) ==
            [erro |-> TRUE, linha |-> linha, valor |-> <<>>, dirs |-> DD, files |-> FF]
        \* lines 141-145
        concluir(s, caminho_arquivo) ==
            IF s.erro THEN falhou(s.dirs, s.files, s.linha)
            ELSE [erro |-> FALSE, linha |-> 0, valor |-> str_path(caminho_arquivo),
                  dirs |-> s.dirs, files |-> s.files]
        \* lines 136-138: r is what json.dump emits for dados_completos
        salvar(D1, caminho_arquivo, meta, r) ==
            IF ~open_ok(D1, F, caminho_arquivo) \/ falha.linha = 136 THEN falhou(D1, F, 136)
            ELSE IF ~escrita_completa(r, falha, 137)
            THEN falhou(D1, escrever(F, caminho_arquivo, texto_gravado(r, falha, 137)), 137)
            ELSE concluir(_salvar_metadados(D1, escrever(F, caminho_arquivo,
                                                         texto_gravado(r, falha, 137)),
                                            endpoint, meta, caminho_arquivo, falha),
                          caminho_arquivo)
        \* lines 118-133
        preparar(D1, caminho_arquivo, meta) ==
            salvar(D1, caminho_arquivo, meta,
                   Codificar(PyDict(<< Item(<<"metadados">>, PyDict(meta)),
                                       Item(<<"dados">>, dados) >>),
                             TRUE, FALSE, TRUE))
        \* lines 103-126: h is _calcular_hash(dados), t is json.dumps(dados)
        particionar(caminho_particao, h, t) ==
            IF ~mkdir_ok(F, caminho_particao) \/ falha.linha = 111 THEN falhou(D, F, 111)
            ELSE IF ~h.ok THEN falhou(mkdir(D, caminho_particao), F, 125)
            ELSE IF ~t.ok THEN falhou(mkdir(D, caminho_particao), F, 126)
            ELSE preparar(mkdir(D, caminho_particao),
                          Barra(caminho_particao, nome_arquivo(endpoint, id_loja, ts)),
                          metadados(endpoint, h.txt, Comprimento(ensure_ascii(t.txt)), data_negocio,
                                    id_loja, ts, metadados_adicionais))
    IN  particionar(caminho_particao_armazenar(endpoint, data_negocio, id_loja),
                    _calcular_hash(dados),
                    Codificar(dados, FALSE, FALSE, FALSE))

----------------------------------------------------------------------------
(* buscar_dados *)

\* a day directory whose month and day are not zero-padded
caminho_particao_buscar_sem_zeros(endpoint, data_atual) ==
    LET f == ord2ymd(data_atual)
        p1 == Barra(caminho_base, estrutura_pastas("raw"))
        p2 == Barra(p1, endpoint)
        p3 == Barra(p2, <<"ano", "=">> \o Dec(f.year))
        p4 == Barra(p3, <<"mes", "=">> \o Dec(f.month))
    IN  Barra(p4, <<"dia", "=">> \o Dec(f.day))

\* lines 203-208: the day directory the query looks in
caminho_particao_buscar(endpoint, data_atual) ==
    LET f == ord2ymd(data_atual)
        p1 == Barra(caminho_base, estrutura_pastas("raw"))
        p2 == Barra(p1, endpoint)
        p3 == Barra(p2, <<"ano", "=">> \o Dec(f.year))
        p4 == Barra(p3, <<"mes", "=">> \o Pad2(f.month))
    IN  Barra(p4, <<"dia", "=">> \o Pad2(f.day))

\* a store directory named by the bare id
caminho_loja_sem_prefixo(caminho_particao, id_loja) ==
    Barra(caminho_particao, id_loja)

\* line 213
caminho_loja(caminho_particao, id_loja) ==
    Barra(caminho_particao, <<"loja", "=">> \o id_loja)

existe(D, F, p) == p \in D \/ p \in DOMAIN F

\* p.glob(prefix + "*"): the entries of p whose name starts with prefix
glob_prefixo(D, F, p, prefixo) ==
    {q \in Filhos(D, F, p) : StartsWith(Nome(q), prefixo)}

\* p.glob("*" + sufixo)
glob_sufixo(D, F, p, sufixo) ==
    {q \in Filhos(D, F, p) : EndsWith(Nome(q), sufixo)}

\* lines 235-238 for one file: [ok, v]; ok is FALSE when an exception is caught
ler_arquivo(D, F, q) ==
    LET lido(r) ==
            IF ~r.ok \/ r.v.t # "dict" THEN [ok |-> FALSE, v |-> PyNone]
            ELSE [ok |-> TRUE,
                  v |-> PyDict(DictSet(r.v.d, <<"_", "caminho", "_", "arquivo">>,
                                       PyStr(str_path(q))))]
    IN  IF q \notin DOMAIN F THEN [ok |-> FALSE, v |-> PyNone]
        ELSE lido(json_load(F[q]))

\* a loop that the first unreadable file ends
RECURSIVE ler_ate_falhar(_, _, _)
ler_ate_falhar(D, F, o) ==
    LET junta(r) == IF r.ok THEN <<r.v>> \o ler_ate_falhar(D, F, Tail(o)) ELSE <<>>
    IN  IF o = <<>> THEN <<>> ELSE junta(ler_arquivo(D, F, Head(o)))

\* the loop of _ler_arquivos_pasta over the files in the order o
RECURSIVE ler_em_ordem(_, _, _)
ler_em_ordem(D, F, o) ==
    LET junta(r) == (IF r.ok THEN <<r.v>> ELSE <<>>) \o ler_em_ordem(D, F, Tail(o))
    IN  IF o = <<>> THEN <<>> ELSE junta(ler_arquivo(D, F, Head(o)))

\* _ler_arquivos_pasta: the lists it can return, one per listing order
_ler_arquivos_pasta(D, F, caminho_pasta) ==
    {ler_em_ordem(D, F, o) : o \in Ordens(glob_sufixo(D, F, caminho_pasta, <<".", "json">>))}

\* lines 219-220: the store directories in every listing order
RECURSIVE ler_pastas(_, _, _)
ler_pastas(D, F, pastas) ==
    IF pastas = {} THEN {<<>>}
    ELSE UNION { {a \o b : a \in _ler_arquivos_pasta(D, F, p),
                           b \in ler_pastas(D, F, pastas \ {p})} : p \in pastas }

\* a loop body that filters whenever a store id is given, the empty one included
buscar_dia_com_id_vazio(D, F, endpoint, data_atual, id_loja) ==
    LET da_loja(pasta) ==
            IF existe(D, F, pasta) THEN _ler_arquivos_pasta(D, F, pasta) ELSE {<<>>}
        em(caminho_particao) ==
            IF ~existe(D, F, caminho_particao) THEN {<<>>}
            ELSE IF id_loja # <<>>
            THEN da_loja(caminho_loja(caminho_particao, id_loja[1]))
            ELSE ler_pastas(D, F, glob_prefixo(D, F, caminho_particao, <<"loja", "=">>))
    IN  em(caminho_particao_buscar(endpoint, data_atual))

\* the body of the while loop for one day; id_loja is <<>> for None, <<id>> otherwise
buscar_dia(D, F, endpoint, data_atual, id_loja) ==
    LET da_loja(pasta) ==
            IF existe(D, F, pasta) THEN _ler_arquivos_pasta(D, F, pasta) ELSE {<<>>}
        em(caminho_particao) ==
            IF ~existe(D, F, caminho_particao) THEN {<<>>}
            ELSE IF id_loja # <<>> /\ id_loja[1] # <<>>
            THEN da_loja(caminho_loja(caminho_particao, id_loja[1]))
            ELSE ler_pastas(D, F, glob_prefixo(D, F, caminho_particao, <<"loja", "=">>))
    IN  em(caminho_particao_buscar(endpoint, data_atual))

\* a loop condition that leaves the last day out
antes_do_fim(data_atual, data_fim) == data_atual < data_fim

\* line 201: while data_atual <= data_fim
dentro_do_periodo(data_atual, data_fim) == data_atual <= data_fim

\* a query that puts the two ends of the period in order before it starts
buscar_dados_em_ordem(D, F, endpoint, data_inicio, data_fim, id_loja) ==
    LET menor == IF data_inicio <= data_fim THEN data_inicio ELSE data_fim
        maior == IF data_inicio <= data_fim THEN data_fim ELSE data_inicio
        RECURSIVE de(_)
        de(d) ==
            IF d > maior THEN {[erro |-> FALSE, valor |-> <<>>]}
            ELSE { [erro |-> FALSE, valor |-> a \o r.valor] :
                       a \in buscar_dia(D, F, endpoint, d, id_loja), r \in de(d + 1) }
    IN  de(menor)

\* a loop that puts the records of each day in front of those collected so far
RECURSIVE buscar_do_fim(_, _, _, _, _, _)
buscar_do_fim(D, F, endpoint, data_atual, data_fim, id_loja) ==
    IF ~dentro_do_periodo(data_atual, data_fim) THEN {[erro |-> FALSE, valor |-> <<>>]}
    ELSE IF data_atual >= OrdMax THEN {[erro |-> TRUE, valor |-> <<>>]}
    ELSE { [erro |-> r.erro, valor |-> IF r.erro THEN <<>> ELSE r.valor \o a] :
               a \in buscar_dia(D, F, endpoint, data_atual, id_loja),
               r \in buscar_do_fim(D, F, endpoint, data_atual + 1, data_fim, id_loja) }

\* buscar_dados from data_atual on: the outcomes [erro, valor] it can have;
\* data_atual += timedelta(days=1) raises OverflowError past date.max
RECURSIVE buscar_de(_, _, _, _, _, _)
buscar_de(D, F, endpoint, data_atual, data_fim, id_loja) ==
    IF ~dentro_do_periodo(data_atual, data_fim) THEN {[erro |-> FALSE, valor |-> <<>>]}
    ELSE IF data_atual >= OrdMax THEN {[erro |-> TRUE, valor |-> <<>>]}
    ELSE { [erro |-> r.erro, valor |-> IF r.erro THEN <<>> ELSE a \o r.valor] :
               a \in buscar_dia(D, F, endpoint, data_atual, id_loja),
               r \in buscar_de(D, F, endpoint, data_atual + 1, data_fim, id_loja) }

buscar_dados(D, F, endpoint, data_inicio, data_fim, id_loja) ==
    buscar_de(D, F, endpoint, data_inicio, data_fim, id_loja)

----------------------------------------------------------------------------
(* listar_esquemas_disponiveis *)

\* lines 247-258: the dict it returns, endpoint name -> versions; sorted(versoes)
\* is a list of distinct stems, given here as their set
listar_esquemas_disponiveis(D, F) ==
    LET caminho_esquemas == Barra(caminho_base, estrutura_pastas("schemas"))
        pastas == IF existe(D, F, caminho_esquemas)
                  THEN {q \in Filhos(D, F, caminho_esquemas) : q \in D}
                  ELSE {}
    IN  [n \in {Nome(q) : q \in pastas} |->
            {Stem(Nome(f)) : f \in glob_sufixo(D, F, Barra(caminho_esquemas, n), <<".", "json">>)}]

----------------------------------------------------------------------------
(* obter_estatisticas_data_lake *)

arquivos_abaixo(F, p) == {q \in DOMAIN F : Abaixo(q, p)}

RECURSIVE Soma(_, _)
Soma(F, S) ==
    IF S = {} THEN 0
    ELSE LET q == CHOOSE x \in S : TRUE IN Len(F[q]) + Soma(F, S \ {q})

\* a count of the files that lie in the directory itself
_analisar_pasta_sem_descer(F, caminho_pasta) ==
    [ total_arquivos |-> Cardinality({q \in DOMAIN F : Pai(q) = caminho_pasta}),
      tamanho |-> Soma(F, {q \in DOMAIN F : Pai(q) = caminho_pasta}) ]

\* _analisar_pasta: the number of files beneath the directory and their total
\* size (in characters of text)
_analisar_pasta(F, caminho_pasta) ==
    [ total_arquivos |-> Cardinality(arquivos_abaixo(F, caminho_pasta)),
      tamanho |-> Soma(F, arquivos_abaixo(F, caminho_pasta)) ]

\* lines 333-343 for one path: the store ids and dates read off its parts;
\* erro: a part after "ano=..." has no "=" (IndexError)
partes_info(partes) ==
    LET lojas == {i \in 1..Len(partes) : StartsWith(partes[i], <<"loja", "=">>)}
        anos == {i \in 1..Len(partes) : /\ ~StartsWith(partes[i], <<"loja", "=">>)
                                        /\ StartsWith(partes[i], <<"ano", "=">>)}
        idx(i) == CHOOSE j \in 1..Len(partes) :
                      partes[j] = partes[i] /\ \A k \in 1..(j - 1) : partes[k] # partes[i]
        comData == {i \in anos : idx(i) + 2 <= Len(partes)}
        semIgual == {i \in comData : \/ Len(Split(partes[idx(i) + 1], "=")) < 2
                                     \/ Len(Split(partes[idx(i) + 2], "=")) < 2}
    IN  [ erro |-> semIgual # {},
          lojas |-> {Split(partes[i], "=")[2] : i \in lojas},
          datas |-> { Split(partes[i], "=")[2] \o <<"-">>
                      \o Split(partes[idx(i) + 1], "=")[2] \o <<"-">>
                      \o Split(partes[idx(i) + 2], "=")[2] : i \in comData \ semIgual } ]

\* _analisar_endpoint; lojas_unicas and datas_disponiveis are sorted lists
\* without repetition, given here as the sets of their elements
_analisar_endpoint(F, caminho_endpoint) ==
    LET achados == {q \in arquivos_abaixo(F, caminho_endpoint) :
                        EndsWith(Nome(q), <<".", "json">>)}
    IN  [ erro |-> \E q \in achados : partes_info(q).erro,
          total_arquivos |-> Cardinality(achados),
          lojas_unicas |-> UNION {partes_info(q).lojas : q \in achados},
          datas_disponiveis |-> UNION {partes_info(q).datas : q \in achados},
          tamanho |-> Soma(F, achados) ]

RECURSIVE SomaTotais(_, _)
SomaTotais(f, S) ==
    IF S = {} THEN 0
    ELSE LET z == CHOOSE x \in S : TRUE IN f[z].total_arquivos + SomaTotais(f, S \ {z})

\* obter_estatisticas_data_lake on the tree (D, F); estrutura_pastas is keyed
\* by the zone's directory name, endpoints by the endpoint directory's name
obter_estatisticas_data_lake(D, F) ==
    LET presentes == {z \in Zonas : existe(D, F, Barra(caminho_base, estrutura_pastas(z)))}
        estrutura == [n \in {estrutura_pastas(z) : z \in presentes} |->
                         _analisar_pasta(F, Barra(caminho_base, n))]
        raw == Barra(caminho_base, estrutura_pastas("raw"))
        pastas_endpoint == IF "raw" \in presentes THEN {q \in Filhos(D, F, raw) : q \in D}
                           ELSE {}
        eps == [n \in {Nome(q) : q \in pastas_endpoint} |->
                   _analisar_endpoint(F, Barra(raw, n))]
    IN  [ erro |-> \E n \in DOMAIN eps : eps[n].erro,
          estrutura_pastas |-> estrutura,
          total_arquivos |-> SomaTotais(estrutura, DOMAIN estrutura),
          endpoints |-> eps ]

----------------------------------------------------------------------------
(* limpar_dados_antigos *)

\* the text after the first "=" of a directory name: name.split('=')[1]
depois_do_igual(nome) == Split(nome, "=")[2]

\* a walk that takes the endpoint directories of every zone
pastas_dia_de_todas_as_zonas(D, F) ==
    LET pastas_endpoint ==
            UNION {{q \in Filhos(D, F, Barra(caminho_base, estrutura_pastas(z))) : q \in D} :
                       z \in Zonas}
        pastas_ano == UNION {glob_prefixo(D, F, e, <<"ano", "=">>) : e \in pastas_endpoint}
        pastas_mes == UNION {glob_prefixo(D, F, a, <<"mes", "=">>) : a \in pastas_ano}
        pastas_d == UNION {glob_prefixo(D, F, m, <<"dia", "=">>) : m \in pastas_mes}
    IN  [ erro |-> FALSE,
          pastas |-> { [ pasta |-> d,
                         ano |-> IntDe(depois_do_igual(Nome(Pai(Pai(d))))).n,
                         mes |-> IntDe(depois_do_igual(Nome(Pai(d)))).n,
                         dia |-> IntDe(depois_do_igual(Nome(d))).n ] : d \in pastas_d } ]

\* the dia= directories the walk visits, with the integers read off the
\* names on the way (lines 405-414); erro: some int() on the way raises
pastas_dia(D, F) ==
    LET raw == Barra(caminho_base, estrutura_pastas("raw"))
        pastas_endpoint == {q \in Filhos(D, F, raw) : q \in D}
        pastas_ano == UNION {glob_prefixo(D, F, e, <<"ano", "=">>) : e \in pastas_endpoint}
        anos_ok == {a \in pastas_ano : IntDe(depois_do_igual(Nome(a))).ok}
        pastas_mes == UNION {glob_prefixo(D, F, a, <<"mes", "=">>) : a \in anos_ok}
        meses_ok == {m \in pastas_mes : IntDe(depois_do_igual(Nome(m))).ok}
        pastas_d == UNION {glob_prefixo(D, F, m, <<"dia", "=">>) : m \in meses_ok}
        dias_ok == {d \in pastas_d : IntDe(depois_do_igual(Nome(d))).ok}
    IN  [ erro |-> anos_ok # pastas_ano \/ meses_ok # pastas_mes \/ dias_ok # pastas_d,
          pastas |-> { [ pasta |-> d,
                         ano |-> IntDe(depois_do_igual(Nome(Pai(Pai(d))))).n,
                         mes |-> IntDe(depois_do_igual(Nome(Pai(d)))).n,
                         dia |-> IntDe(depois_do_igual(Nome(d))).n ] : d \in dias_ok } ]

\* a removal that also takes the directories it leaves empty, up to the zone
rmtree_e_pastas_vazias(D, F, pastas) ==
    LET dd == {q \in D : \A p \in pastas : q # p /\ ~Abaixo(q, p)}
        ff == [q \in {x \in DOMAIN F : \A p \in pastas : ~Abaixo(x, p)} |-> F[q]]
        acima == {q \in dd : Len(q) > Len(caminho_base) /\ \E p \in pastas : Abaixo(p, q)}
        vazias == {q \in acima : /\ \A x \in dd : Abaixo(x, q) => x \in acima
                                 /\ \A x \in DOMAIN ff : ~Abaixo(x, q)}
    IN  [dirs |-> dd \ vazias, files |-> ff]

\* shutil.rmtree(p) for each p in pastas
rmtree(D, F, pastas) ==
    [ dirs |-> {q \in D : \A p \in pastas : q # p /\ ~Abaixo(q, p)},
      files |-> [q \in {x \in DOMAIN F : \A p \in pastas : ~Abaixo(x, p)} |-> F[q]] ]

\* a comparison that also takes the cutoff day
ate_o_corte(data_pasta, data_corte) == data_pasta <= data_corte

\* line 419: data_pasta < data_corte
antes_do_corte(data_pasta, data_corte) == data_pasta < data_corte

\* limpar_dados_antigos on the tree (D, F) when today is hoje: the outcomes
\* [erro, arquivos_removidos, tamanho_liberado, data_corte, dirs, files].
\* When an int() raises, the walk stops there: the partitions visited before,
\* in the listing order, are already removed.
limpar_dados_antigos(D, F, hoje, dias_retencao) ==
    LET data_corte == hoje - dias_retencao
        w == pastas_dia(D, F)
        antigas == {x \in w.pastas : /\ DataValida(x.ano, x.mes, x.dia)
                                     /\ antes_do_corte(ymd2ord(x.ano, x.mes, x.dia), data_corte)}
        feito(X, erro) ==
            LET alvo == {x.pasta : x \in X}
                removidos == UNION {arquivos_abaixo(F, p) : p \in alvo}
                t == rmtree(D, F, alvo)
            IN  [ erro |-> erro,
                  arquivos_removidos |-> Cardinality(removidos),
                  tamanho_liberado |-> Soma(F, removidos),
                  data_corte |-> data_corte,
                  dirs |-> t.dirs, files |-> t.files ]
    IN  IF data_corte < 1 \/ data_corte > OrdMax
        THEN {[ erro |-> TRUE, arquivos_removidos |-> 0, tamanho_liberado |-> 0,
                data_corte |-> data_corte, dirs |-> D, files |-> F ]}
        ELSE IF w.erro THEN {feito(X, TRUE) : X \in SUBSET antigas}
        ELSE {feito(antigas, FALSE)}

----------------------------------------------------------------------------
(* criar_backup *)

\* the path q of the tree at src, moved to the tree at dst
Transposto(q, src, dst) == dst \o SubSeq(q, Len(src) + 1, Len(q))

\* a copy of the directories only
copytree_so_pastas(D, F, src, dst) ==
    IF existe(D, F, dst) \/ ~mkdir_ok(F, Pai(dst)) THEN [erro |-> TRUE, dirs |-> D, files |-> F]
    ELSE [ erro |-> FALSE,
           dirs |-> D \cup {Transposto(q, src, dst) : q \in {x \in D : x = src \/ Abaixo(x, src)}},
           files |-> F ]

\* shutil.copytree(src, dst), dst outside src: raises FileExistsError when dst
\* exists; otherwise every directory and file at or beneath src has its copy
\* at the same place beneath dst
copytree(D, F, src, dst) ==
    LET copiados == {x \in DOMAIN F : Abaixo(x, src)}
        novos == {Transposto(x, src, dst) : x \in copiados}
    IN  IF existe(D, F, dst) \/ ~mkdir_ok(F, Pai(dst))
        THEN [erro |-> TRUE, dirs |-> D, files |-> F]
        ELSE [ erro |-> FALSE,
               dirs |-> D \cup {Transposto(q, src, dst) : q \in {x \in D : x = src \/ Abaixo(x, src)}},
               files |-> [q \in DOMAIN F \cup novos |->
                             IF q \in novos
                             THEN F[CHOOSE x \in copiados : Transposto(x, src, dst) = q]
                             ELSE F[q]] ]

\* lines 23-30: the zones in the order of the dict
ZonasEmOrdem == <<"raw", "processed", "schemas", "metadata", "archive", "temp">>

\* lines 371-376: the manifest. Of the statistics report it holds the time of
\* the report, the per-zone file counts and paths, the total file count and
\* periodo_dados; the sizes and the per-endpoint inventories are left out.
metadados_backup(ts, caminho_backup_completo, e) ==
    LET zona(n) ==
            Item(n, PyDict(<< Item(<<"total", "_", "arquivos">>,
                                   PyInt(e.estrutura_pastas[n].total_arquivos)),
                              Item(<<"caminho">>, PyStr(str_path(Barra(caminho_base, n)))) >>))
        presentes == SelectSeq(ZonasEmOrdem,
                               LAMBDA z : estrutura_pastas(z) \in DOMAIN e.estrutura_pastas)
    IN  PyDict(<< Item(<<"timestamp", "_", "backup">>, PyStr(isoformat_dt(ts))),
                  Item(<<"caminho", "_", "original">>, PyStr(str_path(caminho_base))),
                  Item(<<"caminho", "_", "backup">>, PyStr(str_path(caminho_backup_completo))),
                  Item(<<"estatisticas">>,
                       PyDict(<< Item(<<"timestamp", "_", "calculo">>, PyStr(isoformat_dt(ts))),
                                 Item(<<"estrutura", "_", "pastas">>,
                                      PyDict([i \in 1..Len(presentes) |->
                                                 zona(estrutura_pastas(presentes[i]))])),
                                 Item(<<"total", "_", "arquivos">>, PyInt(e.total_arquivos)),
                                 Item(<<"periodo", "_", "dados">>,
                                      PyDict(<< Item(<<"data", "_", "mais", "_", "antiga">>, PyNone),
                                                Item(<<"data", "_", "mais", "_", "recente">>, PyNone) >>))
                              >>)) >>)

\* criar_backup(caminho_backup) at clock reading ts, for a destination outside
\* the base path: [erro, valor, dirs, files]
criar_backup(D, F, ts, caminho_backup) ==
    LET falhou(DD, FF) == [erro |-> TRUE, valor |-> <<>>, dirs |-> DD, files |-> FF]
        \* lines 378-385
        gravar(t, destino, r) ==
            IF ~r.ok THEN falhou(t.dirs, escrever(t.files, Barra(destino, <<"metadados", "_", "backup", ".", "json">>), r.txt))
            ELSE [ erro |-> FALSE, valor |-> str_path(destino), dirs |-> t.dirs,
                   files |-> escrever(t.files, Barra(destino, <<"metadados", "_", "backup", ".", "json">>), r.txt) ]
        \* lines 371-376
        manifesto(t, destino, e) ==
            IF e.erro THEN falhou(t.dirs, t.files)
            ELSE gravar(t, destino, Codificar(metadados_backup(ts, destino, e), TRUE, FALSE, TRUE))
        \* line 368
        copiar(D1, destino, t) ==
            IF t.erro THEN falhou(D1, F)
            ELSE manifesto(t, destino, obter_estatisticas_data_lake(t.dirs, t.files))
        \* lines 359-365
        em(caminho_backup_path) ==
            IF ~mkdir_ok(F, caminho_backup_path) THEN falhou(D, F)
            ELSE copiar(mkdir(D, caminho_backup_path),
                        Barra(caminho_backup_path,
                              <<"backup", "_", "data", "_", "lake", "_">> \o strftime(ts)),
                        copytree(mkdir(D, caminho_backup_path), F, caminho_base,
                                 Barra(caminho_backup_path,
                                       <<"backup", "_", "data", "_", "lake", "_">> \o strftime(ts))))
    IN  em(Barra(<<>>, caminho_backup))

----------------------------------------------------------------------------
(* The calls made on the lake *)

MaxArmazenar == 2

MaxLimpezas == 1

MaxTicks == 1

getGuestChecks == <<"getGuestChecks">>

\* an endpoint that is not one of endpoints_api
getMenu == <<"getMenu">>

loja_teste == <<"loja", "_", "teste">>

loja_ab == <<"a", "=", "b">>

loja_vazia == <<>>

\* a store id that is a prefix of loja_ab
loja_a == <<"a">>

Dia1 == ymd2ord(2023, 12, 31)

Dia2 == ymd2ord(2024, 1, 1)

Dia3 == ymd2ord(2024, 1, 2)

Datas == {Dia1, Dia2, Dia3}

\* {"a": 1, "b": {"x": 1, "y": 2}}
Dados1 ==
    PyDict(<< Item(<<"a">>, PyInt(1)),
              Item(<<"b">>, PyDict(<<Item(<<"x">>, PyInt(1)), Item(<<"y">>, PyInt(2))>>)) >>)

\* the same document built in another insertion order
Dados2 ==
    PyDict(<< Item(<<"b">>, PyDict(<<Item(<<"y">>, PyInt(2)), Item(<<"x">>, PyInt(1))>>)),
              Item(<<"a">>, PyInt(1)) >>)

\* {"a": ["x", None]}
Dados3 == PyDict(<< Item(<<"a">>, PyList(<<PyStr(<<"x">>), PyNone>>)) >>)

\* {"a": date(...)}: a value json has no encoding for
DadosObj == PyDict(<< Item(<<"a">>, PyObj(<<"o">>)) >>)

\* d with d["a"] = d
DadosCiclo == PyDict(<< Item(<<"a">>, PyCiclo) >>)

\* {"b": "x", "a": ["y", "\ud800"]}
DadosSub ==
    PyDict(<< Item(<<"b">>, PyStr(<<"x">>)),
              Item(<<"a">>, PyList(<<PyStr(<<"y">>), PyStr(<<Substituto>>)>>)) >>)

\* metadados_adicionais = {"hash_dados": "x", "origem": date(...)}
ExtraHash ==
    << Item(<<"hash", "_", "dados">>, PyStr(<<"x">>)), Item(<<"origem">>, PyObj(<<"o">>)) >>

\* metadados_adicionais = m with m["k"] = m
ExtraCiclo == << Item(<<"k">>, PyCiclo) >>

Pedido(e, d, dn, l, x) ==
    [endpoint |-> e, dados |-> d, data_negocio |-> dn, id_loja |-> l, metadados_adicionais |-> x]

Pedidos ==
    {Pedido(getGuestChecks, Dados1, dn, loja_teste, <<>>) : dn \in Datas}
    \cup {Pedido(getGuestChecks, Dados2, Dia3, loja_teste, <<>>),
          Pedido(getGuestChecks, Dados3, Dia3, loja_ab, ExtraHash),
          Pedido(getGuestChecks, Dados3, Dia3, loja_vazia, <<>>),
          Pedido(getMenu, Dados1, Dia2, loja_teste, <<>>),
          Pedido(getGuestChecks, Dados1, Dia3, loja_teste, ExtraCiclo),
          Pedido(getGuestChecks, DadosObj, Dia3, loja_teste, <<>>)}

\* the id_loja arguments of a query: <<>> is None
Filtros == {<<>>, <<loja_vazia>>, <<loja_teste>>, <<loja_ab>>}

Consulta(e, di, df, l) ==
    [endpoint |-> e, data_inicio |-> di, data_fim |-> df, id_loja |-> l]

\* the periods queried: one day, several days, a period that ends before it starts
Periodos == {<<Dia3, Dia3>>, <<Dia1, Dia2>>, <<Dia2, Dia3>>, <<Dia1, Dia3>>, <<Dia3, Dia1>>}

Consultas ==
    {Consulta(getGuestChecks, p[1], p[2], l) : p \in Periodos, l \in Filtros}
    \cup {Consulta(getMenu, Dia1, Dia3, l) : l \in {<<>>, <<loja_teste>>}}
    \cup {Consulta(getGuestChecks, Dia3, Dia3, <<loja_a>>)}

Retencoes == {0, 1}

Init ==
    /\ dirs = criar_estrutura_base({}, now(0).dia)
    /\ files = << >>
    /\ agora = 0
    /\ retorno = [op |-> "init", erro |-> FALSE]
    /\ historico = {}
    /\ nArmazenar = 0
    /\ nSucessos = 0
    /\ nLimpezas = 0
    /\ par = <<>>
    /\ escritores = <<>>
    /\ gerenciador = TRUE

\* time passes
Tick ==
    /\ agora < MaxTicks
    /\ agora' = agora + 1
    /\ UNCHANGED <<dirs, files, retorno, historico, nArmazenar, nSucessos, nLimpezas, par, escritores, gerenciador>>

Armazenar ==
    /\ nArmazenar < MaxArmazenar
    /\ \E p \in Pedidos :
          \E r \in {armazenar_resposta_api(dirs, files, now(agora), p.endpoint, p.dados,
                                           p.data_negocio, p.id_loja, p.metadados_adicionais,
                                           SemFalha)} :
              /\ dirs' = r.dirs
              /\ files' = r.files
              /\ retorno' = [op |-> "armazenar", pedido |-> p, ts |-> now(agora),
                             erro |-> r.erro, valor |-> r.valor]
              /\ historico' = IF r.erro THEN historico
                              ELSE historico \cup {[pedido |-> p, ts |-> now(agora),
                                                    caminho |-> Barra(<<>>, r.valor),
                                                    texto |-> r.files[Barra(<<>>, r.valor)]]}
              /\ nSucessos' = IF r.erro THEN nSucessos ELSE nSucessos + 1
    /\ nArmazenar' = nArmazenar + 1
    /\ UNCHANGED <<agora, nLimpezas, par, escritores, gerenciador>>

\* a query that creates the day directory it starts from
BuscarCriandoParticao ==
    /\ \E c \in Consultas :
          \E r \in buscar_dados(dirs, files, c.endpoint, c.data_inicio, c.data_fim, c.id_loja) :
              /\ retorno' = [op |-> "buscar", erro |-> r.erro, valor |-> r.valor]
              /\ dirs' = mkdir(dirs, caminho_particao_buscar(c.endpoint, c.data_inicio))
    /\ UNCHANGED <<files, agora, historico, nArmazenar, nSucessos, nLimpezas, par, escritores, gerenciador>>

Buscar ==
    /\ \E c \in Consultas :
          \E r \in buscar_dados(dirs, files, c.endpoint, c.data_inicio, c.data_fim, c.id_loja) :
              retorno' = [op |-> "buscar", erro |-> r.erro, valor |-> r.valor]
    /\ UNCHANGED <<dirs, files, agora, historico, nArmazenar, nSucessos, nLimpezas, par, escritores, gerenciador>>

Estatisticas ==
    /\ \E r \in {obter_estatisticas_data_lake(dirs, files)} :
          retorno' = [op |-> "estatisticas", erro |-> r.erro, valor |-> r]
    /\ UNCHANGED <<dirs, files, agora, historico, nArmazenar, nSucessos, nLimpezas, par, escritores, gerenciador>>

ListarEsquemas ==
    /\ \E r \in {listar_esquemas_disponiveis(dirs, files)} :
          retorno' = [op |-> "esquemas", erro |-> FALSE, valor |-> r]
    /\ UNCHANGED <<dirs, files, agora, historico, nArmazenar, nSucessos, nLimpezas, par, escritores, gerenciador>>

Limpar ==
    /\ nLimpezas < MaxLimpezas
    /\ \E dias_retencao \in Retencoes :
          \E r \in limpar_dados_antigos(dirs, files, now(agora).dia, dias_retencao) :
              /\ dirs' = r.dirs
              /\ files' = r.files
              /\ retorno' = [op |-> "limpar", dias_retencao |-> dias_retencao,
                             erro |-> r.erro,
                             valor |-> [arquivos_removidos |-> r.arquivos_removidos,
                                        tamanho_liberado |-> r.tamanho_liberado,
                                        data_corte |-> r.data_corte]]
    /\ nLimpezas' = nLimpezas + 1
    /\ UNCHANGED <<agora, historico, nArmazenar, nSucessos, par, escritores, gerenciador>>

Next == Tick \/ Armazenar \/ Buscar \/ Estatisticas \/ ListarEsquemas \/ Limpar

Spec == Init /\ [][Next]_vars

----------------------------------------------------------------------------
(* The partition path on its own: two keys and the directories lines        *)
(* 103-111 create for them on a fresh lake                                  *)

\* "ano=2024/mes=01/dia=01/loja=loja_teste"
texto_de_particao ==
    <<"ano", "=", "2", "0", "2", "4", "/", "mes", "=", "0", "1", "/",
      "dia", "=", "0", "1", "/", "loja", "=">> \o loja_teste

EndpointsParticao ==
    { getGuestChecks, getGuestChecks \o <<"/">>, <<".">>, <<>>,
      getGuestChecks \o <<"/">> \o texto_de_particao }

LojasParticao ==
    { loja_teste, loja_teste \o <<"/">>, loja_vazia,
      loja_teste \o <<"/">> \o texto_de_particao }

ChavesParticao ==
    {[endpoint |-> e, data_negocio |-> d, id_loja |-> l] :
         e \in EndpointsParticao, d \in {Dia2, Dia3}, l \in LojasParticao}

InitParticao ==
    /\ dirs = criar_estrutura_base({}, now(0).dia)
    /\ files = << >>
    /\ agora = 0
    /\ retorno = [op |-> "init", erro |-> FALSE]
    /\ historico = {}
    /\ nArmazenar = 0
    /\ nSucessos = 0
    /\ nLimpezas = 0
    /\ par \in {[a |-> k1, b |-> k2, feito |-> FALSE, pa |-> <<>>, pb |-> <<>>] :
                    k1 \in ChavesParticao, k2 \in ChavesParticao}
    /\ escritores = <<>>
    /\ gerenciador = TRUE

\* lines 103-111 for each of the two keys
CriarParticoes ==
    /\ ~par.feito
    /\ LET pa == caminho_particao_armazenar(par.a.endpoint, par.a.data_negocio, par.a.id_loja)
           pb == caminho_particao_armazenar(par.b.endpoint, par.b.data_negocio, par.b.id_loja)
       IN  /\ par' = [par EXCEPT !.feito = TRUE, !.pa = pa, !.pb = pb]
           /\ dirs' = mkdir(mkdir(dirs, pa), pb)
    /\ UNCHANGED <<files, agora, retorno, historico, nArmazenar, nSucessos, nLimpezas,
                   escritores, gerenciador>>

NextParticao == CriarParticoes

SpecParticao == InitParticao /\ [][NextParticao]_vars

----------------------------------------------------------------------------
(* Stores on a file system that may refuse an operation, with caller         *)
(* metadata that names keys the writer sets                                  *)

\* metadados_adicionais = {"nome_arquivo": "x", "caminho_arquivo": "y", "origem": date(...)}
ExtraNome ==
    << Item(<<"nome", "_", "arquivo">>, PyStr(<<"x">>)),
       Item(<<"caminho", "_", "arquivo">>, PyStr(<<"y">>)),
       Item(<<"origem">>, PyObj(<<"o">>)) >>

\* metadados_adicionais naming every key of the envelope, and one more
ExtraEnvelope ==
    << Item(<<"endpoint">>, PyStr(<<"x">>)),
       Item(<<"data", "_", "negocio">>, PyStr(<<"y">>)),
       Item(<<"id", "_", "loja">>, PyNone),
       Item(<<"timestamp", "_", "ingestao">>, PyInt(7)),
       Item(<<"versao", "_", "esquema">>, PyStr(<<"2", ".", "0">>)),
       Item(<<"hash", "_", "dados">>, PyStr(<<"x">>)),
       Item(<<"tamanho", "_", "bytes">>, PyList(<<PyInt(1)>>)),
       Item(<<"origem">>, PyStr(<<"pos">>)) >>

PedidosFalha ==
    { Pedido(getGuestChecks, Dados1, Dia3, loja_teste, <<>>),
      Pedido(getGuestChecks, Dados3, Dia2, loja_teste, ExtraNome),
      Pedido(getMenu, Dados1, Dia3, loja_teste, ExtraEnvelope),
      Pedido(getGuestChecks, Dados1, Dia3, loja_teste, ExtraCiclo),
      Pedido(getGuestChecks, DadosObj, Dia3, loja_teste, <<>>),
      Pedido(getGuestChecks, DadosCiclo, Dia3, loja_teste, <<>>),
      Pedido(getGuestChecks, DadosSub, Dia3, loja_teste, <<>>) }

\* the operations that may be refused: mkdir (111), open (136), the write of
\* the record (137), and the same three of the sidecar (163, 174, 175)
Falhas ==
    { SemFalha,
      [linha |-> 111, corte |-> 0], [linha |-> 136, corte |-> 0],
      [linha |-> 137, corte |-> 0], [linha |-> 137, corte |-> 3],
      [linha |-> 163, corte |-> 0], [linha |-> 174, corte |-> 0],
      [linha |-> 175, corte |-> 0], [linha |-> 175, corte |-> 3] }

ArmazenarComFalha ==
    /\ nArmazenar < MaxArmazenar
    /\ \E p \in PedidosFalha, falha \in Falhas :
          \E r \in {armazenar_resposta_api(dirs, files, now(agora), p.endpoint, p.dados,
                                           p.data_negocio, p.id_loja, p.metadados_adicionais,
                                           falha)} :
              /\ dirs' = r.dirs
              /\ files' = r.files
              /\ retorno' = [op |-> "armazenar", pedido |-> p, ts |-> now(agora),
                             falha |-> falha, linha |-> r.linha,
                             erro |-> r.erro, valor |-> r.valor]
              /\ historico' = IF r.erro THEN historico
                              ELSE historico \cup {[pedido |-> p, ts |-> now(agora),
                                                    caminho |-> Barra(<<>>, r.valor),
                                                    texto |-> r.files[Barra(<<>>, r.valor)]]}
              /\ nSucessos' = IF r.erro THEN nSucessos ELSE nSucessos + 1
    /\ nArmazenar' = nArmazenar + 1
    /\ UNCHANGED <<agora, nLimpezas, par, escritores, gerenciador>>

NextFalhas == Tick \/ ArmazenarComFalha

SpecFalhas == Init /\ [][NextFalhas]_vars

----------------------------------------------------------------------------
(* Maintenance: stores, queries and statistics with backups and cleanups of  *)
(* any retention                                                             *)

MaxBackups == 2

PedidosManutencao ==
    { Pedido(getGuestChecks, Dados1, Dia1, loja_teste, <<>>),
      Pedido(getMenu, Dados3, Dia3, loja_ab, ExtraHash) }

\* retention in days: tomorrow's cutoff, today's, yesterday's, and one that
\* takes the cutoff before date.min
RetencoesAmplas == {-1, 0, 1, 800000}

\* caminho_backup = "backups", a directory beside the base path
backups == <<"backups">>

\* the snapshots taken so far
Snapshots(D) == {q \in D : Len(q) = 2 /\ Pai(q) = Barra(<<>>, backups)}

ArmazenarRegistro ==
    /\ gerenciador
    /\ nArmazenar < MaxArmazenar
    /\ \E p \in PedidosManutencao :
          \E r \in {armazenar_resposta_api(dirs, files, now(agora), p.endpoint, p.dados,
                                           p.data_negocio, p.id_loja, p.metadados_adicionais,
                                           SemFalha)} :
              /\ dirs' = r.dirs
              /\ files' = r.files
              /\ retorno' = [op |-> "armazenar", pedido |-> p, ts |-> now(agora),
                             erro |-> r.erro, valor |-> r.valor]
              /\ historico' = IF r.erro THEN historico
                              ELSE historico \cup {[pedido |-> p, ts |-> now(agora),
                                                    caminho |-> Barra(<<>>, r.valor),
                                                    texto |-> r.files[Barra(<<>>, r.valor)]]}
              /\ nSucessos' = IF r.erro THEN nSucessos ELSE nSucessos + 1
    /\ nArmazenar' = nArmazenar + 1
    /\ UNCHANGED <<agora, nLimpezas, par, escritores, gerenciador>>

LimparQualquer ==
    /\ gerenciador
    /\ nLimpezas < MaxLimpezas
    /\ \E dias_retencao \in RetencoesAmplas :
          \E r \in limpar_dados_antigos(dirs, files, now(agora).dia, dias_retencao) :
              /\ dirs' = r.dirs
              /\ files' = r.files
              /\ retorno' = [op |-> "limpar", dias_retencao |-> dias_retencao,
                             erro |-> r.erro,
                             valor |-> [arquivos_removidos |-> r.arquivos_removidos,
                                        tamanho_liberado |-> r.tamanho_liberado,
                                        data_corte |-> r.data_corte]]
    /\ nLimpezas' = nLimpezas + 1
    /\ UNCHANGED <<agora, historico, nArmazenar, nSucessos, par, escritores, gerenciador>>

Backup ==
    /\ Cardinality(Snapshots(dirs)) < MaxBackups
    /\ \E r \in {criar_backup(dirs, files, now(agora), backups)} :
          /\ dirs' = r.dirs
          /\ files' = r.files
          /\ retorno' = [op |-> "backup", ts |-> now(agora), erro |-> r.erro, valor |-> r.valor]
    /\ UNCHANGED <<agora, historico, nArmazenar, nSucessos, nLimpezas, par, escritores, gerenciador>>

NextManutencao ==
    Tick \/ ArmazenarRegistro \/ Buscar \/ Estatisticas \/ LimparQualquer \/ Backup

SpecManutencao == Init /\ [][NextManutencao]_vars

----------------------------------------------------------------------------
(* Cleanup of a raw zone that holds day directories no date names: a store   *)
(* whose endpoint text holds "/" creates them on line 111                    *)

\* "ano=2024/mes=13/dia=01"
segmentos_mes_13 ==
    <<"ano", "=", "2", "0", "2", "4", "/", "mes", "=", "1", "3", "/", "dia", "=", "0", "1">>

\* "ano=2024/mes=02/dia=30"
segmentos_fev_30 ==
    <<"ano", "=", "2", "0", "2", "4", "/", "mes", "=", "0", "2", "/", "dia", "=", "3", "0">>

\* "ano=2024/mes=01/dia=xx"
segmentos_dia_xx ==
    <<"ano", "=", "2", "0", "2", "4", "/", "mes", "=", "0", "1", "/", "dia", "=", "xx">>

PedidosCalendario ==
    { Pedido(getGuestChecks, Dados1, Dia1, loja_teste, <<>>),
      Pedido(getGuestChecks, Dados1, Dia3, loja_teste, <<>>),
      Pedido(getMenu \o <<"/">> \o segmentos_mes_13, Dados1, Dia1, loja_teste, <<>>),
      Pedido(getMenu \o <<"/">> \o segmentos_fev_30, Dados1, Dia1, loja_teste, <<>>),
      Pedido(getMenu \o <<"/">> \o segmentos_dia_xx, Dados1, Dia1, loja_teste, <<>>) }

ArmazenarNaParticao ==
    /\ nArmazenar < MaxArmazenar
    /\ \E p \in PedidosCalendario :
          \E r \in {armazenar_resposta_api(dirs, files, now(agora), p.endpoint, p.dados,
                                           p.data_negocio, p.id_loja, p.metadados_adicionais,
                                           SemFalha)} :
              /\ dirs' = r.dirs
              /\ files' = r.files
              /\ retorno' = [op |-> "armazenar", pedido |-> p, ts |-> now(agora),
                             erro |-> r.erro, valor |-> r.valor]
              /\ historico' = IF r.erro THEN historico
                              ELSE historico \cup {[pedido |-> p, ts |-> now(agora),
                                                    caminho |-> Barra(<<>>, r.valor),
                                                    texto |-> r.files[Barra(<<>>, r.valor)]]}
              /\ nSucessos' = IF r.erro THEN nSucessos ELSE nSucessos + 1
    /\ nArmazenar' = nArmazenar + 1
    /\ UNCHANGED <<agora, nLimpezas, par, escritores, gerenciador>>

NextCalendario == Tick \/ ArmazenarNaParticao \/ Limpar

SpecCalendario == Init /\ [][NextCalendario]_vars

----------------------------------------------------------------------------
(* Two armazenar_resposta_api calls at the same time (two processes on one   *)
(* lake): every system call of a call is a step, and the steps of the two    *)
(* calls interleave in any order.  The payloads are ones json can encode.    *)

PedidosConcorrentes ==
    { Pedido(getGuestChecks, Dados1, Dia3, loja_teste, <<>>),
      Pedido(getGuestChecks, Dados3, Dia3, loja_teste, <<>>),
      Pedido(getGuestChecks, Dados1, Dia2, loja_teste, <<>>),
      Pedido(getMenu, Dados1, Dia3, loja_ab, <<>>),
      Pedido(getMenu, Dados1, Dia3, loja_teste, <<>>) }

\* a writer about to read the clock (line 100).  n, sobe: the position of
\* Path.mkdir in its walk; corrida: an os.mkdir of this writer has found a
\* directory that came into being after the writer saw it missing
Escritor(p) ==
    [ pedido |-> p, pc |-> "relogio", ts |-> now(0), n |-> 0, sobe |-> FALSE,
      corrida |-> FALSE, erro |-> FALSE, valor |-> <<>> ]

InitConcorrente ==
    /\ dirs = criar_estrutura_base({}, now(0).dia)
    /\ files = << >>
    /\ agora = 0
    /\ retorno = [op |-> "init", erro |-> FALSE]
    /\ historico = {}
    /\ nArmazenar = 0
    /\ nSucessos = 0
    /\ nLimpezas = 0
    /\ par = <<>>
    /\ escritores \in {<<Escritor(p1), Escritor(p2)>> :
                           p1 \in PedidosConcorrentes, p2 \in PedidosConcorrentes}
    /\ gerenciador = TRUE

\* lines 103-109
particao_de(w) ==
    caminho_particao_armazenar(w.pedido.endpoint, w.pedido.data_negocio, w.pedido.id_loja)

\* lines 114-115
caminho_arquivo_de(w) ==
    Barra(particao_de(w), nome_arquivo(w.pedido.endpoint, w.pedido.id_loja, w.ts))

\* lines 118-133
metadados_de(w) ==
    metadados(w.pedido.endpoint, _calcular_hash(w.pedido.dados).txt,
              Comprimento(ensure_ascii(Codificar(w.pedido.dados, FALSE, FALSE, FALSE).txt)),
              w.pedido.data_negocio, w.pedido.id_loja, w.ts, w.pedido.metadados_adicionais)

\* line 137: the text json.dump emits for dados_completos
texto_do_registro(w) ==
    Codificar(PyDict(<< Item(<<"metadados">>, PyDict(metadados_de(w))),
                        Item(<<"dados">>, w.pedido.dados) >>),
              TRUE, FALSE, TRUE).txt

\* line 160
pasta_metadados_de(w) ==
    Barra(Barra(caminho_base, estrutura_pastas("metadata")), w.pedido.endpoint)

\* line 175: the text json.dump emits for metadados_completos
texto_do_sidecar(w) ==
    Codificar(PyDict(metadados_completos(metadados_de(w), caminho_arquivo_de(w))),
              TRUE, FALSE, TRUE).txt

\* an os.mkdir that raises whenever the directory exists
existente_recusado(D, p) == FALSE

\* Path.mkdir(exist_ok=True): os.mkdir raised FileExistsError and the path is
\* a directory, so the exception is dropped
existente_tolerado(D, p) == p \in D

\* One os.mkdir of Path.mkdir(parents=True, exist_ok=True) on alvo, by a writer
\* whose walk is at the first n components: os.mkdir creates the directory, or
\* finds its parent missing (the walk goes to the parent, then comes back up
\* with parents=False), or finds the path taken.
\* [erro, feito, n, sobe, corrida, dirs]
os_mkdir(D, F, alvo, n, sobe) ==
    LET p == SubSeq(alvo, 1, n)
        adiante(DD, corrida) ==
            [ erro |-> FALSE, feito |-> n = Len(alvo), n |-> n + 1, sobe |-> TRUE,
              corrida |-> corrida, dirs |-> DD ]
        falhou == [ erro |-> TRUE, feito |-> TRUE, n |-> n, sobe |-> sobe,
                    corrida |-> FALSE, dirs |-> D ]
    IN  IF p \in D \/ p \in DOMAIN F
        THEN IF existente_tolerado(D, p) THEN adiante(D, sobe) ELSE falhou
        ELSE IF n > 1 /\ Pai(p) \notin D
        THEN IF sobe \/ Pai(p) \in DOMAIN F THEN falhou
             ELSE [ erro |-> FALSE, feito |-> FALSE, n |-> n - 1, sobe |-> FALSE,
                    corrida |-> FALSE, dirs |-> D ]
        ELSE adiante(D \cup {p}, FALSE)

\* write(fd, txt) at offset 0 of a file that holds old
os_write(old, txt) == txt \o SubSeq(old, Len(txt) + 1, Len(old))

\* the writer i with its fields changed
Passo(i, w) == escritores' = [escritores EXCEPT ![i] = w]

Interrompido(w, linha) == [w EXCEPT !.pc = "fim", !.erro = TRUE]

\* line 100: timestamp = datetime.now()
LerRelogio ==
    /\ \E i \in DOMAIN escritores :
          /\ escritores[i].pc = "relogio"
          /\ Passo(i, [escritores[i] EXCEPT !.pc = "particao", !.ts = now(agora),
                                            !.n = Len(particao_de(escritores[i]))])
    /\ UNCHANGED <<dirs, files, agora, retorno, historico, nArmazenar, nSucessos, nLimpezas, par,
                   gerenciador>>

\* line 111: one os.mkdir of caminho_particao.mkdir(parents=True, exist_ok=True)
CriarParticao ==
    /\ \E i \in DOMAIN escritores :
          /\ escritores[i].pc = "particao"
          /\ \E r \in {os_mkdir(dirs, files, particao_de(escritores[i]),
                                escritores[i].n, escritores[i].sobe)} :
                /\ dirs' = r.dirs
                /\ Passo(i, IF r.erro THEN Interrompido(escritores[i], 111)
                            ELSE [escritores[i] EXCEPT
                                      !.pc = IF r.feito THEN "abrir" ELSE "particao",
                                      !.n = r.n, !.sobe = r.sobe,
                                      !.corrida = @ \/ r.corrida])
    /\ UNCHANGED <<files, agora, retorno, historico, nArmazenar, nSucessos, nLimpezas, par,
                   gerenciador>>

\* line 136: open(caminho_arquivo, 'w') creates the file or empties it
AbrirRegistro ==
    /\ \E i \in DOMAIN escritores :
          /\ escritores[i].pc = "abrir"
          /\ IF open_ok(dirs, files, caminho_arquivo_de(escritores[i]))
             THEN /\ files' = escrever(files, caminho_arquivo_de(escritores[i]), <<>>)
                  /\ Passo(i, [escritores[i] EXCEPT !.pc = "gravar"])
             ELSE /\ files' = files
                  /\ Passo(i, Interrompido(escritores[i], 136))
    /\ UNCHANGED <<dirs, agora, retorno, historico, nArmazenar, nSucessos, nLimpezas, par,
                   gerenciador>>

\* lines 137-138: json.dump fills the buffer of the file object, and leaving
\* the with block writes it out at the start of the file
GravarRegistro ==
    /\ \E i \in DOMAIN escritores :
          /\ escritores[i].pc = "gravar"
          /\ files' = escrever(files, caminho_arquivo_de(escritores[i]),
                               os_write(files[caminho_arquivo_de(escritores[i])],
                                        texto_do_registro(escritores[i])))
          /\ Passo(i, [escritores[i] EXCEPT
                           !.pc = "metadados",
                           !.n = Len(pasta_metadados_de(escritores[i])),
                           !.sobe = FALSE])
    /\ UNCHANGED <<dirs, agora, retorno, historico, nArmazenar, nSucessos, nLimpezas, par,
                   gerenciador>>

\* line 163: one os.mkdir of caminho_metadados.mkdir(parents=True, exist_ok=True)
CriarPastaMetadados ==
    /\ \E i \in DOMAIN escritores :
          /\ escritores[i].pc = "metadados"
          /\ \E r \in {os_mkdir(dirs, files, pasta_metadados_de(escritores[i]),
                                escritores[i].n, escritores[i].sobe)} :
                /\ dirs' = r.dirs
                /\ Passo(i, IF r.erro THEN Interrompido(escritores[i], 163)
                            ELSE [escritores[i] EXCEPT
                                      !.pc = IF r.feito THEN "abrir_sidecar" ELSE "metadados",
                                      !.n = r.n, !.sobe = r.sobe,
                                      !.corrida = @ \/ r.corrida])
    /\ UNCHANGED <<files, agora, retorno, historico, nArmazenar, nSucessos, nLimpezas, par,
                   gerenciador>>

\* line 174: open(arquivo_metadados, 'w')
AbrirSidecar ==
    /\ \E i \in DOMAIN escritores :
          LET arq == arquivo_metadados(escritores[i].pedido.endpoint,
                                       caminho_arquivo_de(escritores[i]))
          IN  /\ escritores[i].pc = "abrir_sidecar"
              /\ IF open_ok(dirs, files, arq)
                 THEN /\ files' = escrever(files, arq, <<>>)
                      /\ Passo(i, [escritores[i] EXCEPT !.pc = "gravar_sidecar"])
                 ELSE /\ files' = files
                      /\ Passo(i, Interrompido(escritores[i], 174))
    /\ UNCHANGED <<dirs, agora, retorno, historico, nArmazenar, nSucessos, nLimpezas, par,
                   gerenciador>>

\* lines 175 and 145: the sidecar is written out and the call returns the path
GravarSidecar ==
    /\ \E i \in DOMAIN escritores :
          LET arq == arquivo_metadados(escritores[i].pedido.endpoint,
                                       caminho_arquivo_de(escritores[i]))
          IN  /\ escritores[i].pc = "gravar_sidecar"
              /\ files' = escrever(files, arq,
                                   os_write(files[arq], texto_do_sidecar(escritores[i])))
              /\ Passo(i, [escritores[i] EXCEPT
                               !.pc = "fim",
                               !.valor = str_path(caminho_arquivo_de(escritores[i]))])
    /\ UNCHANGED <<dirs, agora, retorno, historico, nArmazenar, nSucessos, nLimpezas, par,
                   gerenciador>>

NextConcorrente ==
    \/ Tick
    \/ LerRelogio
    \/ CriarParticao
    \/ AbrirRegistro
    \/ GravarRegistro
    \/ CriarPastaMetadados
    \/ AbrirSidecar
    \/ GravarSidecar

SpecConcorrente == InitConcorrente /\ [][NextConcorrente]_vars

----------------------------------------------------------------------------
(* Construction: GerenciadorDataLake(caminho_base) on a base path that does  *)
(* not exist yet, and again over the lake at any later time, on a file       *)
(* system that may refuse to create a directory                              *)

\* endpoints_api in the order of the list on lines 55-61
endpoints_em_ordem ==
    << <<"bilgetFiscalInvoice">>, <<"getGuestChecks">>, <<"getChargeBack">>,
       <<"getTransactions">>, <<"getCashManagementDetails">> >>

\* lines 68-74: the example partition of an endpoint under caminho_pasta
particao_exemplo(caminho_pasta, endpoint, hoje) ==
    LET f == ord2ymd(hoje)
    IN  << >> \o caminho_pasta \o << endpoint,
                                     <<"ano", "=">> \o Dec(f.year),
                                     <<"mes", "=">> \o Pad2(f.month),
                                     <<"dia", "=">> \o Pad2(f.day) >>

\* the directories the constructor asks for, in the order it asks: the base
\* path (line 39), then each zone (line 44) followed, for raw and processed,
\* by the directory (line 65) and the example partition (line 74) of each
\* endpoint
pastas_da_construcao(hoje) ==
    LET da_zona(z) ==
            LET caminho_pasta == Barra(caminho_base, estrutura_pastas(z))
                de(i) == << Barra(caminho_pasta, endpoints_em_ordem[i]),
                            particao_exemplo(caminho_pasta, endpoints_em_ordem[i], hoje) >>
            IN  <<caminho_pasta>> \o
                (IF z \in {"raw", "processed"}
                 THEN de(1) \o de(2) \o de(3) \o de(4) \o de(5)
                 ELSE <<>>)
    IN  <<caminho_base>> \o da_zona(ZonasEmOrdem[1]) \o da_zona(ZonasEmOrdem[2])
        \o da_zona(ZonasEmOrdem[3]) \o da_zona(ZonasEmOrdem[4])
        \o da_zona(ZonasEmOrdem[5]) \o da_zona(ZonasEmOrdem[6])

\* a mkdir that first clears what lies beneath the directory
mkdir_limpando(D, F, p, recusada) ==
    [ erro |-> FALSE, dirs |-> {q \in D : ~Abaixo(q, p)} \cup Prefixos(p) ]

\* p.mkdir(parents=True, exist_ok=True) when the file system refuses to create
\* the directory recusada (<<>>: it refuses none): [erro, dirs].  The
\* directories above the one that fails are created; a regular file in the
\* way fails the call.
mkdir_ou_falha(D, F, p, recusada) ==
    LET novas == {q \in Prefixos(p) : q \notin D}
        impedidas == {q \in novas : q = recusada \/ q \in DOMAIN F}
    IN  IF impedidas = {} THEN [erro |-> FALSE, dirs |-> D \cup novas]
        ELSE [ erro |-> TRUE,
               dirs |-> D \cup {q \in novas : \A x \in impedidas : Len(q) < Len(x)} ]

\* lines 27-50 from the i-th directory asked for on: [erro, dirs]; the first
\* mkdir that raises ends the construction (nothing catches the exception)
RECURSIVE construir_de(_, _, _, _, _)
construir_de(D, F, pastas, i, recusada) ==
    IF i > Len(pastas) THEN [erro |-> FALSE, dirs |-> D]
    ELSE LET r == mkdir_ou_falha(D, F, pastas[i], recusada)
         IN  IF r.erro THEN r ELSE construir_de(r.dirs, F, pastas, i + 1, recusada)

\* GerenciadorDataLake.__init__ on the tree (D, F) when today is hoje
construir(D, F, hoje, recusada) ==
    construir_de(D, F, pastas_da_construcao(hoje), 1, recusada)

\* the directories a file system may refuse: none, the endpoint directory or a
\* level of the example partition of an endpoint (raw and processed), a zone
Recusas(hoje) ==
    LET raw == Barra(caminho_base, estrutura_pastas("raw"))
        processed == Barra(caminho_base, estrutura_pastas("processed"))
    IN  { <<>>,
          Barra(raw, <<"getGuestChecks">>),
          particao_exemplo(raw, <<"getChargeBack">>, hoje),
          Pai(particao_exemplo(processed, <<"bilgetFiscalInvoice">>, hoje)),
          particao_exemplo(processed, <<"getCashManagementDetails">>, hoje),
          Barra(caminho_base, estrutura_pastas("schemas")) }

\* nothing exists yet and no GerenciadorDataLake has been constructed
InitConstrucao ==
    /\ dirs = {}
    /\ files = << >>
    /\ agora = 0
    /\ retorno = [op |-> "nenhum", erro |-> FALSE]
    /\ historico = {}
    /\ nArmazenar = 0
    /\ nSucessos = 0
    /\ nLimpezas = 0
    /\ par = <<>>
    /\ escritores = <<>>
    /\ gerenciador = FALSE

Construir ==
    /\ \E recusada \in Recusas(now(agora).dia) :
          \E r \in {construir(dirs, files, now(agora).dia, recusada)} :
              /\ dirs' = r.dirs
              /\ retorno' = [op |-> "construir", hoje |-> now(agora).dia,
                             recusada |-> recusada, erro |-> r.erro]
              /\ gerenciador' = (gerenciador \/ ~r.erro)
    /\ UNCHANGED <<files, agora, historico, nArmazenar, nSucessos, nLimpezas, par, escritores>>

NextConstrucao == Tick \/ Construir \/ ArmazenarRegistro \/ LimparQualquer

SpecConstrucao == InitConstrucao /\ [][NextConstrucao]_vars

----------------------------------------------------------------------------
(* Queries over several days and several stores *)

MaxOrdem == 4

PedidosOrdem ==
    { Pedido(getGuestChecks, Dados3, Dia2, loja_teste, <<>>),
      Pedido(getGuestChecks, Dados3, Dia3, loja_teste, <<>>),
      Pedido(getGuestChecks, Dados3, Dia3, loja_ab, <<>>) }

ConsultasOrdem ==
    { Consulta(getGuestChecks, Dia2, Dia3, <<>>),
      Consulta(getGuestChecks, Dia2, Dia3, <<loja_teste>>) }

ArmazenarLojas ==
    /\ nArmazenar < MaxOrdem
    /\ \E p \in PedidosOrdem :
          \E r \in {armazenar_resposta_api(dirs, files, now(agora), p.endpoint, p.dados,
                                           p.data_negocio, p.id_loja, p.metadados_adicionais,
                                           SemFalha)} :
              /\ dirs' = r.dirs
              /\ files' = r.files
              /\ retorno' = [op |-> "armazenar", pedido |-> p, ts |-> now(agora),
                             erro |-> r.erro, valor |-> r.valor]
              /\ historico' = IF r.erro THEN historico
                              ELSE historico \cup {[pedido |-> p, ts |-> now(agora),
                                                    caminho |-> Barra(<<>>, r.valor),
                                                    texto |-> r.files[Barra(<<>>, r.valor)]]}
              /\ nSucessos' = IF r.erro THEN nSucessos ELSE nSucessos + 1
    /\ nArmazenar' = nArmazenar + 1
    /\ UNCHANGED <<agora, nLimpezas, par, escritores, gerenciador>>

BuscarLojas ==
    /\ \E c \in ConsultasOrdem :
          \E r \in buscar_dados(dirs, files, c.endpoint, c.data_inicio, c.data_fim, c.id_loja) :
              retorno' = [op |-> "buscar", consulta |-> c, erro |-> r.erro, valor |-> r.valor]
    /\ UNCHANGED <<dirs, files, agora, historico, nArmazenar, nSucessos, nLimpezas, par, escritores, gerenciador>>

NextOrdem == Tick \/ ArmazenarLojas \/ BuscarLojas

SpecOrdem == Init /\ [][NextOrdem]_vars

----------------------------------------------------------------------------
(* Queries up to the last day of the calendar *)

\* date.max
DiaMax == OrdMax

PedidosPeriodo ==
    { Pedido(getGuestChecks, Dados3, Dia3, loja_teste, <<>>),
      Pedido(getGuestChecks, Dados3, DiaMax - 1, loja_teste, <<>>),
      Pedido(getGuestChecks, Dados3, DiaMax, loja_teste, <<>>) }

ConsultasPeriodo ==
    { Consulta(getGuestChecks, Dia2, Dia3, <<>>),
      Consulta(getGuestChecks, Dia3, Dia2, <<>>),
      Consulta(getGuestChecks, DiaMax - 2, DiaMax - 1, <<>>),
      Consulta(getGuestChecks, DiaMax - 1, DiaMax, <<>>),
      Consulta(getGuestChecks, DiaMax, DiaMax, <<loja_teste>>),
      Consulta(getGuestChecks, DiaMax, DiaMax - 1, <<>>) }

ArmazenarNoPeriodo ==
    /\ nArmazenar < MaxArmazenar
    /\ \E p \in PedidosPeriodo :
          \E r \in {armazenar_resposta_api(dirs, files, now(agora), p.endpoint, p.dados,
                                           p.data_negocio, p.id_loja, p.metadados_adicionais,
                                           SemFalha)} :
              /\ dirs' = r.dirs
              /\ files' = r.files
              /\ retorno' = [op |-> "armazenar", pedido |-> p, ts |-> now(agora),
                             erro |-> r.erro, valor |-> r.valor]
              /\ historico' = IF r.erro THEN historico
                              ELSE historico \cup {[pedido |-> p, ts |-> now(agora),
                                                    caminho |-> Barra(<<>>, r.valor),
                                                    texto |-> r.files[Barra(<<>>, r.valor)]]}
              /\ nSucessos' = IF r.erro THEN nSucessos ELSE nSucessos + 1
    /\ nArmazenar' = nArmazenar + 1
    /\ UNCHANGED <<agora, nLimpezas, par, escritores, gerenciador>>

BuscarNoPeriodo ==
    /\ \E c \in ConsultasPeriodo :
          \E r \in buscar_dados(dirs, files, c.endpoint, c.data_inicio, c.data_fim, c.id_loja) :
              retorno' = [op |-> "buscar", consulta |-> c, erro |-> r.erro, valor |-> r.valor]
    /\ UNCHANGED <<dirs, files, agora, historico, nArmazenar, nSucessos, nLimpezas, par, escritores, gerenciador>>

NextPeriodo == Tick \/ ArmazenarNoPeriodo \/ BuscarNoPeriodo

SpecPeriodo == Init /\ [][NextPeriodo]_vars

----------------------------------------------------------------------------
(* Properties *)

\* the key of a request
Chave(p) == <<p.endpoint, p.data_negocio, p.id_loja>>

\* the record file of a store that returned still holds what that store wrote
Vivo(h) == h.caminho \in DOMAIN files /\ files[h.caminho] = h.texto

chave_caminho == <<"_", "caminho", "_", "arquivo">>

\* the raw zone
zona_raw == <<caminho_base[1], caminho_base[2], <<"dados", "_", "brutos">>>>

\* the calendar, written out: the digits of the dates the calls use
Calendario ==
    { [d |-> Dia1, ano |-> <<"2", "0", "2", "3">>, mes |-> <<"1", "2">>, dia |-> <<"3", "1">>],
      [d |-> Dia2, ano |-> <<"2", "0", "2", "4">>, mes |-> <<"0", "1">>, dia |-> <<"0", "1">>],
      [d |-> Dia3, ano |-> <<"2", "0", "2", "4">>, mes |-> <<"0", "1">>, dia |-> <<"0", "2">>] }

NoCalendario(d) == CHOOSE c \in Calendario : c.d = d

\* the wall clock, written out: HHMMSS of the second of the day
Relogio(seg) ==
    CASE seg = 86399 -> <<"2", "3", "5", "9", "5", "9">>
      [] seg = 0 -> <<"0", "0", "0", "0", "0", "0">>
      [] seg = 1 -> <<"0", "0", "0", "0", "0", "1">>
      [] seg = 2 -> <<"0", "0", "0", "0", "0", "2">>

\* the day directories of the raw zone: zone/endpoint/ano=/mes=/dia=
ParticoesDia(D) == {q \in D : Len(q) = Len(zona_raw) + 4 /\ Abaixo(q, zona_raw)}

\* the calendar entry a day directory is named after
EntradaDe(q) ==
    {c \in Calendario : /\ Nome(Pai(Pai(q))) = <<"ano", "=">> \o c.ano
                        /\ Nome(Pai(q)) = <<"mes", "=">> \o c.mes
                        /\ Nome(q) = <<"dia", "=">> \o c.dia}

DataDaParticao(q) == (CHOOSE c \in EntradaDe(q) : TRUE).d

\* whether the store argument of a query filters: it is given and not empty
Filtra(c) == c.id_loja # <<>> /\ c.id_loja[1] # <<>>

\* the paths and the payloads of a list of records
CaminhosDe(valor) == {Valor(valor[i].d, chave_caminho).s : i \in 1..Len(valor)}

\* ---------------------------------------------------------------- C1
\* the request of the last store is the only one that returned for its key
UnicoDaChave ==
    Cardinality({h \in historico : Chave(h.pedido) = Chave(retorno.pedido)}) = 1

\* C1 - round trip: when armazenar_resposta_api returns, the path it returned
\* names an existing file, and for a non-empty store id buscar_dados(endpoint,
\* d, d, id_loja) returns a record whose "dados" equals the payload - exactly
\* one record when that is the only record ever stored for the key.
C1_RoundTrip ==
    (retorno.op = "armazenar" /\ ~retorno.erro) =>
        LET p == retorno.pedido
        IN  /\ Barra(<<>>, retorno.valor) \in DOMAIN files
            /\ p.id_loja # <<>> =>
                  \A r \in buscar_dados(dirs, files, p.endpoint, p.data_negocio,
                                        p.data_negocio, <<p.id_loja>>) :
                      /\ ~r.erro
                      /\ \E i \in 1..Len(r.valor) :
                             PyEq(Valor(r.valor[i].d, <<"dados">>), p.dados)
                      /\ UnicoDaChave => Len(r.valor) = 1

C1_Witness ==
    /\ retorno.op = "armazenar" /\ ~retorno.erro
    /\ retorno.pedido.id_loja # <<>>
    /\ UnicoDaChave
    /\ nSucessos = 2

\* ---------------------------------------------------------------- C2
\* C2 - no overwrite: after any sequence of armazenar_resposta_api calls that
\* all returned (two in the same second for the same endpoint and store
\* included), every record stored is still there with what was written, and
\* the raw zone holds as many files as calls returned.
C2_NuncaSobrescreve ==
    (nLimpezas = 0 /\ nSucessos = nArmazenar) =>
        /\ \A h \in historico : Vivo(h)
        /\ Cardinality(arquivos_abaixo(files, zona_raw)) = nSucessos

\* ---------------------------------------------------------------- C3
\* the records a query is to return: those stored for the endpoint, with a
\* business date in [data_inicio, data_fim], of the store when one is given
Esperados(c) ==
    {h \in historico : /\ Vivo(h)
                       /\ h.pedido.endpoint = c.endpoint
                       /\ c.data_inicio <= h.pedido.data_negocio
                       /\ h.pedido.data_negocio <= c.data_fim
                       /\ Filtra(c) => h.pedido.id_loja = c.id_loja[1]}

C4_Retencao ==
    [][ nLimpezas' = nLimpezas + 1 =>
          LET corte == now(agora).dia - retorno'.dias_retencao
              removidos == DOMAIN files \ DOMAIN files'
          IN  /\ ~retorno'.erro
              /\ retorno'.valor.data_corte = corte
              /\ \A q \in ParticoesDia(dirs) :
                     /\ EntradaDe(q) # {}
                     /\ q \notin dirs' <=> DataDaParticao(q) < corte
                     /\ DataDaParticao(q) >= corte =>
                           /\ \A x \in dirs : Abaixo(x, q) => x \in dirs'
                           /\ \A f \in DOMAIN files : Abaixo(f, q) => f \in DOMAIN files'
              /\ \A f \in removidos :
                     \E q \in ParticoesDia(dirs) : Abaixo(f, q) /\ DataDaParticao(q) < corte
              /\ \A f \in DOMAIN files' : f \in DOMAIN files /\ files'[f] = files[f]
              /\ retorno'.valor.arquivos_removidos = Cardinality(removidos)
      ]_vars

C4_Witness ==
    /\ retorno.op = "limpar"
    /\ retorno.valor.arquivos_removidos >= 1
    /\ \E f \in DOMAIN files :
           \E q \in ParticoesDia(dirs) :
               Abaixo(f, q) /\ EntradaDe(q) # {} /\ DataDaParticao(q) = retorno.valor.data_corte

\* ---------------------------------------------------------------- C5
\* the .json files in the store directories a query covers
ArquivosDaConsulta(c) ==
    {f \in DOMAIN files :
        /\ Len(f) = Len(zona_raw) + 6 /\ Abaixo(f, zona_raw)
        /\ f[Len(zona_raw) + 1] = c.endpoint
        /\ EntradaDe(Pai(Pai(f))) # {}
        /\ DataDaParticao(Pai(Pai(f))) \in c.data_inicio..c.data_fim
        /\ StartsWith(Nome(Pai(f)), <<"loja", "=">>)
        /\ Filtra(c) => Nome(Pai(f)) = <<"loja", "=">> \o c.id_loja[1]
        /\ EndsWith(Nome(f), <<".", "json">>)}

\* a file that does not hold one JSON document
Corrompido(f) == ~json_load(files[f]).ok

\* C5 - partial failure isolation: when a store directory holds valid record
\* files and files that are not valid JSON, buscar_dados does not raise and
\* returns exactly the valid records, each once.
C5_Isolamento ==
    \A c \in Consultas :
        \A r \in buscar_dados(dirs, files, c.endpoint, c.data_inicio, c.data_fim, c.id_loja) :
            /\ ~r.erro
            /\ CaminhosDe(r.valor) = {str_path(f) : f \in {g \in ArquivosDaConsulta(c) : ~Corrompido(g)}}
            /\ Len(r.valor) = Cardinality({g \in ArquivosDaConsulta(c) : ~Corrompido(g)})

C5_Witness ==
    /\ retorno.op = "buscar" /\ ~retorno.erro /\ Len(retorno.valor) = 1
    /\ \E f \in DOMAIN files, g \in DOMAIN files :
           /\ Abaixo(f, zona_raw) /\ Pai(f) = Pai(g)
           /\ Corrompido(f) /\ ~Corrompido(g)
           /\ str_path(g) \in CaminhosDe(retorno.valor)

\* ---------------------------------------------------------------- C6
\* C6 - statistics: after N stores on distinct endpoint/date/store keys, with
\* no cleanup, the statistics give N files for the raw zone, for every
\* endpoint the number of records stored for it, and as its lojas_unicas the
\* set of the store ids used for it.
C6_Estatisticas ==
    ( /\ retorno.op = "estatisticas"
      /\ nLimpezas = 0 /\ nSucessos = nArmazenar
      /\ Cardinality({Chave(h.pedido) : h \in historico}) = nSucessos ) =>
        LET e == retorno.valor
        IN  /\ ~e.erro
            /\ e.estrutura_pastas[estrutura_pastas("raw")].total_arquivos = nSucessos
            /\ \A n \in {h.pedido.endpoint : h \in historico} :
                   /\ n \in DOMAIN e.endpoints
                   /\ e.endpoints[n].total_arquivos =
                          Cardinality({h \in historico : h.pedido.endpoint = n})
                   /\ e.endpoints[n].lojas_unicas =
                          {h.pedido.id_loja : h \in {x \in historico : x.pedido.endpoint = n}}

\* ---------------------------------------------------------------- C7
\* C7 - path determinism: the directory a record is written to depends on its
\* key (endpoint, business date, store) only, whatever the lake holds and
\* whatever the time, and it is the directory buscar_dados reads for that key.
C7_Caminho ==
    /\ \A h1 \in historico, h2 \in historico :
           Chave(h1.pedido) = Chave(h2.pedido) => Pai(h1.caminho) = Pai(h2.caminho)
    /\ \A h \in historico :
           LET p == h.pedido
               dia == caminho_particao_buscar(p.endpoint, p.data_negocio)
           IN  /\ Pai(h.caminho) = caminho_loja(dia, p.id_loja)
               /\ Pai(Pai(h.caminho)) = dia
               /\ StartsWith(Nome(Pai(h.caminho)), <<"loja", "=">>)

C7_Witness ==
    /\ \E h1 \in historico, h2 \in historico :
           /\ Chave(h1.pedido) = Chave(h2.pedido)
           /\ h1.ts # h2.ts
           /\ Vivo(h1) /\ Vivo(h2)
    /\ retorno.op = "buscar" /\ Len(retorno.valor) = 2

\* ---------------------------------------------------------------- C8
\* C8 - partition injectivity: two distinct keys (endpoint, business date,
\* store) never get the same partition directory, even when the endpoint or
\* the store id holds a path separator or the text of a partition segment.
C8_Injetiva ==
    par.feito => (par.a # par.b => par.pa # par.pb)

\* ---------------------------------------------------------------- C9
\* the hash_dados found in the envelope a store wrote
HashGravado(h) ==
    Valor(Valor(json_load(h.texto).v.d, <<"metadados">>).d, <<"hash", "_", "dados">>).s

TrazHash(h) == <<"hash", "_", "dados">> \in Chaves(h.pedido.metadados_adicionais)

\* C9 as stated - the hash_dados of every envelope is the digest of the
\* payload, and equal payloads have equal hash_dados.
C9_HashDoEnvelope ==
    /\ \A h \in historico : HashGravado(h) = _calcular_hash(h.pedido.dados).txt
    /\ \A h1 \in historico, h2 \in historico :
           PyEq(h1.pedido.dados, h2.pedido.dados) => HashGravado(h1) = HashGravado(h2)

\* C9 - hash determinism: equal payloads have the same digest on every call,
\* whatever the insertion order of their keys, and the hash_dados of an
\* envelope is the digest of the payload unless the caller's
\* metadados_adicionais carries a hash_dados of its own.
C9_Hash ==
    /\ \A h \in historico : ~TrazHash(h) => HashGravado(h) = _calcular_hash(h.pedido.dados).txt
    /\ \A h1 \in historico, h2 \in historico :
           (PyEq(h1.pedido.dados, h2.pedido.dados) /\ ~TrazHash(h1) /\ ~TrazHash(h2))
               => HashGravado(h1) = HashGravado(h2)

C9_Witness ==
    /\ \E h1 \in historico, h2 \in historico :
           /\ h1.pedido.dados # h2.pedido.dados
           /\ PyEq(h1.pedido.dados, h2.pedido.dados)
           /\ h1.ts # h2.ts
    /\ retorno.op = "armazenar" /\ ~retorno.erro

\* ---------------------------------------------------------------- C10
\* the path of a record, written out with the given names of the four
\* partition segments
CaminhoEscrito(p, ts, ano, mes, dia, loja) ==
    LET dn == NoCalendario(p.data_negocio)
        di == NoCalendario(ts.dia)
    IN  <<"dados", "/", "data", "_", "lake", "/", "dados", "_", "brutos", "/">>
        \o p.endpoint
        \o <<"/", ano, "=">> \o dn.ano
        \o <<"/", mes, "=">> \o dn.mes
        \o <<"/", dia, "=">> \o dn.dia
        \o <<"/", loja, "=">> \o p.id_loja
        \o <<"/">> \o p.endpoint \o <<"_">> \o p.id_loja \o <<"_">>
        \o di.ano \o di.mes \o di.dia \o <<"_">> \o Relogio(ts.seg) \o <<".", "json">>

\* C10 as stated - the record is written to
\* base/raw/endpoint/year=YYYY/month=MM/day=DD/store=id/endpoint_id_YYYYMMDD_HHMMSS.json
C10_SegmentosEmIngles ==
    (retorno.op = "armazenar" /\ ~retorno.erro) =>
        retorno.valor = CaminhoEscrito(retorno.pedido, retorno.ts, "year", "month", "day", "store")

\* C10 - directory layout: the record is written to
\* base/dados_brutos/endpoint/ano=YYYY/mes=MM/dia=DD/loja=id/endpoint_id_YYYYMMDD_HHMMSS.json,
\* month and day zero-padded to two digits; the partition is that of the
\* business date and the time stamp of the name is the time of ingestion.
C10_Layout ==
    (retorno.op = "armazenar" /\ ~retorno.erro) =>
        /\ retorno.valor = CaminhoEscrito(retorno.pedido, retorno.ts, "ano", "mes", "dia", "loja")
        /\ Barra(<<>>, retorno.valor) \in DOMAIN files

C10_Witness ==
    /\ retorno.op = "armazenar" /\ ~retorno.erro
    /\ retorno.pedido.data_negocio = Dia3
    /\ retorno.ts.dia = Dia2

\* ---------------------------------------------------------------- C11
\* the metadata zone
zona_metadata == <<caminho_base[1], caminho_base[2], <<"metadados">>>>

Registros == arquivos_abaixo(files, zona_raw)

Sidecars == arquivos_abaixo(files, zona_metadata)

\* <metadata zone>/<endpoint>/meta_<stem of R>.json for the record file R
SidecarDe(R) ==
    zona_metadata \o << R[Len(zona_raw) + 1],
                        <<"meta", "_">> \o SubSeq(Nome(R), 1, Len(Nome(R)) - 2)
                            \o <<".", "json">> >>

\* the envelope in the record file R
EnvelopeDe(R) == Valor(json_load(files[R]).v.d, <<"metadados">>)

\* the sidecar S holds the envelope of R plus the path and the name of R
EspelhaRegistro(S, R) ==
    /\ json_load(files[S]).ok
    /\ PyEq(json_load(files[S]).v,
            PyDict(DictSet(DictSet(EnvelopeDe(R).d, <<"caminho", "_", "arquivo">>,
                                   PyStr(str_path(R))),
                           <<"nome", "_", "arquivo">>, PyStr(Nome(R)))))

\* C11 - sidecar 1:1: after any sequence of store and cleanup calls that all
\* returned, every record file has its own sidecar
\* <metadata zone>/<endpoint>/meta_<stem>.json holding its envelope plus
\* caminho_arquivo and nome_arquivo, and every sidecar is that of a record
\* file that exists.
C11_SidecarUmParaUm ==
    nSucessos = nArmazenar =>
        /\ \A R \in Registros : SidecarDe(R) \in Sidecars /\ EspelhaRegistro(SidecarDe(R), R)
        /\ \A R1 \in Registros, R2 \in Registros : R1 # R2 => SidecarDe(R1) # SidecarDe(R2)
        /\ \A S \in Sidecars : \E R \in Registros : S = SidecarDe(R)

\* ---------------------------------------------------------------- C12
\* the record file the last store call was to write
RegistroDoPedido ==
    zona_raw \o << retorno.pedido.endpoint,
                   <<"ano", "=">> \o NoCalendario(retorno.pedido.data_negocio).ano,
                   <<"mes", "=">> \o NoCalendario(retorno.pedido.data_negocio).mes,
                   <<"dia", "=">> \o NoCalendario(retorno.pedido.data_negocio).dia,
                   <<"loja", "=">> \o retorno.pedido.id_loja,
                   retorno.pedido.endpoint \o <<"_">> \o retorno.pedido.id_loja \o <<"_">>
                       \o NoCalendario(retorno.ts.dia).ano \o NoCalendario(retorno.ts.dia).mes
                       \o NoCalendario(retorno.ts.dia).dia \o <<"_">> \o Relogio(retorno.ts.seg)
                       \o <<".", "json">> >>

\* the last call was a store whose record write completed and whose sidecar
\* write the file system then refused
SidecarRecusado ==
    /\ retorno.op = "armazenar"
    /\ retorno.falha.linha \in {163, 174, 175}
    /\ retorno.linha = retorno.falha.linha

\* the record of the last store call is among the results of a query for its key
Recuperavel ==
    \A r \in buscar_dados(dirs, files, retorno.pedido.endpoint, retorno.pedido.data_negocio,
                          retorno.pedido.data_negocio, <<retorno.pedido.id_loja>>) :
        /\ ~r.erro
        /\ str_path(RegistroDoPedido) \in CaminhosDe(r.valor)

\* C12 - relaxed consistency: when the record write of a store call succeeded
\* and the sidecar write then fails, the call returns the path of the record
\* file without raising, and the record is retrievable by buscar_dados.
C12_SucessoSemSidecar ==
    SidecarRecusado =>
        /\ ~retorno.erro
        /\ retorno.valor = str_path(RegistroDoPedido)
        /\ Recuperavel

\* the part of C12 the code keeps: the record is on disk and retrievable
C12_RegistroFica ==
    SidecarRecusado => (RegistroDoPedido \in DOMAIN files /\ Recuperavel)

\* ---------------------------------------------------------------- C13
\* the record write of a store call with request p fails under falha: open
\* (136) or the write (137) is refused, or the envelope cannot be encoded
GravacaoFalha(p, falha) ==
    /\ falha.linha # 111
    /\ \/ falha.linha \in {136, 137}
       \/ ~Codificar(PyDict(p.metadados_adicionais), TRUE, FALSE, TRUE).ok

\* the files of the metadata zone with their contents
ConteudoSidecars(F) == [q \in arquivos_abaixo(F, zona_metadata) |-> F[q]]

\* C13 - when the record write of a store call fails, the call raises and the
\* metadata zone holds the same sidecar files, with the same contents, as
\* before the call.
C13_FalhaNaGravacao ==
    [][ (nArmazenar' = nArmazenar + 1 /\ GravacaoFalha(retorno'.pedido, retorno'.falha)) =>
            /\ retorno'.erro
            /\ retorno'.valor = <<>>
            /\ ConteudoSidecars(files') = ConteudoSidecars(files)
      ]_vars

C13_Witness ==
    /\ retorno.op = "armazenar"
    /\ retorno.falha = [linha |-> 137, corte |-> 3]
    /\ retorno.erro
    /\ RegistroDoPedido \in DOMAIN files /\ Len(files[RegistroDoPedido]) = 3
    /\ Sidecars # {}
    /\ SidecarDe(RegistroDoPedido) \notin Sidecars

\* ---------------------------------------------------------------- C14
\* the store directories of the raw zone a query covers
ParticoesDaConsulta(c) ==
    {q \in dirs :
        /\ Len(q) = Len(zona_raw) + 5 /\ Abaixo(q, zona_raw)
        /\ q[Len(zona_raw) + 1] = c.endpoint
        /\ EntradaDe(Pai(q)) # {}
        /\ DataDaParticao(Pai(q)) \in c.data_inicio..c.data_fim
        /\ StartsWith(Nome(q), <<"loja", "=">>)
        /\ Filtra(c) => Nome(q) = <<"loja", "=">> \o c.id_loja[1]}

\* C14 - empty over exception: buscar_dados returns an empty list without
\* raising when data_inicio > data_fim, and when no partition directory exists
\* for the endpoint (and store) on any day of the period.
C14_VazioSemErro ==
    \A c \in Consultas :
        (c.data_inicio > c.data_fim \/ ParticoesDaConsulta(c) = {}) =>
            \A r \in buscar_dados(dirs, files, c.endpoint, c.data_inicio, c.data_fim, c.id_loja) :
                ~r.erro /\ r.valor = <<>>

C14_Witness ==
    /\ retorno.op = "buscar" /\ ~retorno.erro /\ retorno.valor = <<>>
    /\ \E h \in historico :
           /\ Vivo(h)
           /\ \E c \in Consultas :
                  /\ c.endpoint = h.pedido.endpoint
                  /\ c.data_inicio > c.data_fim
                  /\ h.pedido.data_negocio \in c.data_fim..c.data_inicio
           /\ \E c \in Consultas :
                  /\ c.endpoint = h.pedido.endpoint
                  /\ c.data_inicio <= c.data_fim /\ Filtra(c)
                  /\ h.pedido.data_negocio \in c.data_inicio..c.data_fim
                  /\ ParticoesDaConsulta(c) = {}
    /\ \E c \in Consultas : c.endpoint \notin {h.pedido.endpoint : h \in historico}

\* ---------------------------------------------------------------- C15
\* the readable record files in the store directories of the days a query covers
LegiveisDoPeriodo(c) ==
    {f \in DOMAIN files :
        /\ Len(f) = Len(zona_raw) + 6 /\ Abaixo(f, zona_raw)
        /\ f[Len(zona_raw) + 1] = c.endpoint
        /\ EntradaDe(Pai(Pai(f))) # {}
        /\ DataDaParticao(Pai(Pai(f))) \in c.data_inicio..c.data_fim
        /\ StartsWith(Nome(Pai(f)), <<"loja", "=">>)
        /\ EndsWith(Nome(f), <<".", "json">>)
        /\ ~Corrompido(f)}

\* the results of a query are the files of S, each once
DevolveExatamente(c, S) ==
    \A r \in buscar_dados(dirs, files, c.endpoint, c.data_inicio, c.data_fim, c.id_loja) :
        /\ ~r.erro
        /\ CaminhosDe(r.valor) = {str_path(f) : f \in S}
        /\ Len(r.valor) = Cardinality(S)

\* the files of S that lie in the directory of the store id
DaLoja(S, id) == {f \in S : Nome(Pai(f)) = <<"loja", "=">> \o id}

\* C15 as stated - whenever a store id is given, buscar_dados returns only
\* the records of that store's subdirectory of each day; when none is given
\* it returns the records of every store subdirectory of each day.
C15_FiltroDeLoja ==
    \A c \in Consultas :
        IF c.id_loja # <<>>
        THEN DevolveExatamente(c, DaLoja(LegiveisDoPeriodo(c), c.id_loja[1]))
        ELSE DevolveExatamente(c, LegiveisDoPeriodo(c))

\* C15 - store filter: when a non-empty store id is given, buscar_dados
\* returns only the records of that store's subdirectory of each day (none of
\* a store whose id it is a prefix of); when no store id is given, or the
\* empty string is, it returns the records of every store subdirectory.
C15_FiltroDeLojaNaoVazia ==
    \A c \in Consultas :
        IF c.id_loja # <<>> /\ c.id_loja[1] # <<>>
        THEN DevolveExatamente(c, DaLoja(LegiveisDoPeriodo(c), c.id_loja[1]))
        ELSE DevolveExatamente(c, LegiveisDoPeriodo(c))

C15_Witness ==
    /\ retorno.op = "buscar" /\ ~retorno.erro /\ retorno.valor = <<>>
    /\ \E h1 \in historico, h2 \in historico :
           /\ Vivo(h1) /\ Vivo(h2)
           /\ h1.pedido.endpoint = getGuestChecks /\ h2.pedido.endpoint = getGuestChecks
           /\ h1.pedido.data_negocio = Dia3 /\ h2.pedido.data_negocio = Dia3
           /\ h1.pedido.id_loja = loja_ab
           /\ h2.pedido.id_loja = loja_teste

\* ---------------------------------------------------------------- C16
\* the names of the six zone directories, written out
NomesDasZonas ==
    { <<"dados", "_", "brutos">>, <<"dados", "_", "processados">>, <<"esquemas">>,
      <<"metadados">>, <<"arquivo">>, <<"temporario">> }

\* the directory of the zone named n
PastaDaZona(n) == <<caminho_base[1], caminho_base[2], n>>

\* the directories and the files (with contents) at or beneath p
Arvore(D, F, p) ==
    [ dirs |-> {q \in D : q = p \/ Abaixo(q, p)},
      files |-> [q \in {x \in DOMAIN F : Abaixo(x, p)} |-> F[q]] ]

\* C16 - cleanup frame: a limpar_dados_antigos call, whatever the retention
\* and whether it returns or raises, removes nothing but day partitions of
\* the raw zone and what lies beneath them, creates and rewrites nothing, and
\* leaves the processed, schemas, metadata, archive and temp zones as they were.
C16_Moldura ==
    [][ nLimpezas' = nLimpezas + 1 =>
          /\ \A q \in dirs \ dirs' :
                 \E p \in ParticoesDia(dirs) : q = p \/ Abaixo(q, p)
          /\ \A f \in DOMAIN files \ DOMAIN files' :
                 \E p \in ParticoesDia(dirs) : Abaixo(f, p)
          /\ dirs' \subseteq dirs
          /\ \A f \in DOMAIN files' : f \in DOMAIN files /\ files'[f] = files[f]
          /\ \A n \in NomesDasZonas \ {<<"dados", "_", "brutos">>} :
                 Arvore(dirs', files', PastaDaZona(n)) = Arvore(dirs, files, PastaDaZona(n))
      ]_vars

\* a cleanup with tomorrow's cutoff has removed records; the metadata zone holds
\* sidecars and the processed zone a day partition older than the cutoff
C16_Witness ==
    /\ retorno.op = "limpar" /\ ~retorno.erro
    /\ retorno.dias_retencao = -1
    /\ retorno.valor.arquivos_removidos >= 1
    /\ Sidecars # {}
    /\ \E q \in dirs :
           /\ Len(q) = Len(zona_raw) + 4
           /\ Abaixo(q, PastaDaZona(<<"dados", "_", "processados">>))
           /\ EntradaDe(q) # {} /\ DataDaParticao(q) < retorno.valor.data_corte

\* ---------------------------------------------------------------- C17
\* C17 - zone persistence: after construction and after any sequence of
\* store, query, statistics, backup and cleanup calls, the six zone
\* directories exist under the base path.
C17_ZonasPersistem ==
    \A n \in NomesDasZonas : PastaDaZona(n) \in dirs /\ PastaDaZona(n) \notin DOMAIN files

\* a cleanup has emptied the raw zone of day partitions, after a store and a backup
C17_Witness ==
    /\ retorno.op = "limpar" /\ ~retorno.erro
    /\ ParticoesDia(dirs) = {}
    /\ nSucessos >= 1
    /\ Snapshots(dirs) # {}

\* ---------------------------------------------------------------- C18
\* the files on disk beneath the zone named n
ArquivosDaZona(n) ==
    {f \in DOMAIN files : Len(f) > 3 /\ SubSeq(f, 1, 3) = PastaDaZona(n)}

\* C18 - statistics are recomputed: in every reachable state the report of
\* obter_estatisticas_data_lake gives for each of the six zones the number of
\* files now on disk beneath it, total_arquivos is the sum of the six counts,
\* and the report the last statistics call returned is that report.
C18_Recalculo ==
    LET e == obter_estatisticas_data_lake(dirs, files)
    IN  /\ ~e.erro
        /\ DOMAIN e.estrutura_pastas = NomesDasZonas
        /\ \A n \in NomesDasZonas :
               e.estrutura_pastas[n].total_arquivos = Cardinality(ArquivosDaZona(n))
        /\ e.total_arquivos = Cardinality(UNION {ArquivosDaZona(n) : n \in NomesDasZonas})
        /\ retorno.op = "estatisticas" => retorno.valor = e

\* a statistics call after stores and a cleanup that removed a record
C18_Witness ==
    /\ retorno.op = "estatisticas"
    /\ nLimpezas = 1 /\ nSucessos = 2
    /\ retorno.valor.total_arquivos = 3
    /\ Cardinality(ArquivosDaZona(<<"dados", "_", "brutos">>)) = 1
    /\ Cardinality(ArquivosDaZona(<<"metadados">>)) = 2

\* ---------------------------------------------------------------- C19
\* the directories beneath p (p itself as <<>>), by their paths from p
PastasRelativas(D, p) ==
    {SubSeq(q, Len(p) + 1, Len(q)) : q \in {x \in D : x = p \/ Abaixo(x, p)}}

\* the files beneath p by their paths from p
ArquivosRelativos(F, p) ==
    {SubSeq(q, Len(p) + 1, Len(q)) : q \in {x \in DOMAIN F : Abaixo(x, p)}}

\* the path criar_backup returns at clock reading ts, written out
CaminhoDoBackup(ts) ==
    <<"backups", "/", "backup", "_", "data", "_", "lake", "_">>
    \o NoCalendario(ts.dia).ano \o NoCalendario(ts.dia).mes \o NoCalendario(ts.dia).dia
    \o <<"_">> \o Relogio(ts.seg)

\* the snapshot directory of that path
PastaDoBackup(ts) == << <<"backups">>, SubSeq(CaminhoDoBackup(ts), 3, Len(CaminhoDoBackup(ts))) >>

Manifesto == << <<"metadados", "_", "backup", ".", "json">> >>

\* the manifest text names the source, the destination and the file count
ManifestoDe(txt, destino, total) ==
    /\ json_load(txt).ok
    /\ Chaves(json_load(txt).v.d) =
           { <<"timestamp", "_", "backup">>, <<"caminho", "_", "original">>,
             <<"caminho", "_", "backup">>, <<"estatisticas">> }
    /\ Valor(json_load(txt).v.d, <<"caminho", "_", "original">>).s
           = <<"dados", "/", "data", "_", "lake">>
    /\ Valor(json_load(txt).v.d, <<"caminho", "_", "backup">>).s = destino
    /\ Valor(Valor(json_load(txt).v.d, <<"estatisticas">>).d, <<"total", "_", "arquivos">>)
           = PyInt(total)

\* C19 - backup snapshot: a criar_backup call that returns has created a new
\* directory backup_data_lake_<YYYYMMDD_HHMMSS> that holds a copy of every
\* directory and file of the base tree as it was, plus the manifest, and has
\* left the base tree as it was; and no store, cleanup, backup or other call
\* changes anything in a snapshot that exists.
C19_Snapshot ==
    [][ /\ (retorno'.op = "backup" /\ retorno' # retorno /\ ~retorno'.erro) =>
              /\ retorno'.valor = CaminhoDoBackup(retorno'.ts)
              /\ PastaDoBackup(retorno'.ts) \notin dirs
              /\ PastasRelativas(dirs', PastaDoBackup(retorno'.ts))
                     = PastasRelativas(dirs, caminho_base)
              /\ ArquivosRelativos(files', PastaDoBackup(retorno'.ts))
                     = ArquivosRelativos(files, caminho_base) \cup {Manifesto}
              /\ \A r \in ArquivosRelativos(files, caminho_base) :
                     files'[PastaDoBackup(retorno'.ts) \o r] = files[caminho_base \o r]
              /\ ManifestoDe(files'[PastaDoBackup(retorno'.ts) \o Manifesto], retorno'.valor,
                             Cardinality(ArquivosRelativos(files, caminho_base)))
              /\ Arvore(dirs', files', caminho_base) = Arvore(dirs, files, caminho_base)
        /\ \A q \in Snapshots(dirs) : Arvore(dirs', files', q) = Arvore(dirs, files, q)
      ]_vars

\* two snapshots exist, and a cleanup that came after has removed from the
\* base tree a record file of which a snapshot holds the copy
C19_Witness ==
    /\ Cardinality(Snapshots(dirs)) = 2
    /\ retorno.op = "limpar" /\ retorno.valor.arquivos_removidos >= 1
    /\ \E q \in Snapshots(dirs) :
           \E r \in ArquivosRelativos(files, q) :
               /\ r[1] = <<"dados", "_", "brutos">>
               /\ caminho_base \o r \notin DOMAIN files
    /\ \E q1 \in Snapshots(dirs), q2 \in Snapshots(dirs) :
           ArquivosRelativos(files, q1) \ {Manifesto} # ArquivosRelativos(files, q2) \ {Manifesto}

\* ---------------------------------------------------------------- C20
\* what json.dump(..., default=str) stores for a value of the caller's metadata
Gravavel(v) == IF v.t = "obj" THEN PyStr(v.s) ELSE v

\* the envelope the writer composes for the last store call, key by key
DoEscritor ==
    LET p == retorno.pedido
        dn == NoCalendario(p.data_negocio)
        di == NoCalendario(retorno.ts.dia)
        hms == Relogio(retorno.ts.seg)
    IN  << Item(<<"endpoint">>, PyStr(p.endpoint)),
           Item(<<"data", "_", "negocio">>,
                PyStr(dn.ano \o <<"-">> \o dn.mes \o <<"-">> \o dn.dia)),
           Item(<<"id", "_", "loja">>, PyStr(p.id_loja)),
           Item(<<"timestamp", "_", "ingestao">>,
                PyStr(di.ano \o <<"-">> \o di.mes \o <<"-">> \o di.dia \o <<"T">>
                      \o SubSeq(hms, 1, 2) \o <<":">> \o SubSeq(hms, 3, 4) \o <<":">>
                      \o SubSeq(hms, 5, 6))),
           Item(<<"versao", "_", "esquema">>, PyStr(<<"1", ".", "0">>)),
           Item(<<"hash", "_", "dados">>, PyStr(_calcular_hash(p.dados).txt)),
           Item(<<"tamanho", "_", "bytes">>,
                PyInt(Comprimento(Codificar(p.dados, FALSE, FALSE, FALSE).txt))) >>

\* the envelope found in the record file of the last store call is the merge:
\* the caller's keys with the caller's values, the writer's other keys with
\* the writer's values, and no other key
EnvelopeMesclado ==
    LET env == EnvelopeDe(RegistroDoPedido).d
        extra == retorno.pedido.metadados_adicionais
    IN  /\ Chaves(env) = Chaves(DoEscritor) \cup Chaves(extra)
        /\ \A k \in Chaves(extra) : PyEq(Valor(env, k), Gravavel(Valor(extra, k)))
        /\ \A k \in Chaves(DoEscritor) \ Chaves(extra) :
               PyEq(Valor(env, k), Valor(DoEscritor, k))

\* the document in the sidecar of the last store call
SidecarDoPedido == json_load(files[SidecarDe(RegistroDoPedido)]).v.d

ChavesDoSidecar == {<<"caminho", "_", "arquivo">>, <<"nome", "_", "arquivo">>}

\* C20 as stated - the stored envelope is the merge in which the caller's keys
\* win, and the sidecar holds that same merged envelope.
C20_MesmoEnvelopeNoSidecar ==
    (retorno.op = "armazenar" /\ ~retorno.erro) =>
        /\ EnvelopeMesclado
        /\ SidecarDe(RegistroDoPedido) \in DOMAIN files
        /\ \A k \in Chaves(EnvelopeDe(RegistroDoPedido).d) :
               /\ k \in Chaves(SidecarDoPedido)
               /\ PyEq(Valor(SidecarDoPedido, k), Valor(EnvelopeDe(RegistroDoPedido).d, k))

\* C20 - envelope merge: the stored envelope contains every key of the
\* caller's metadata with the caller's value, writer-set keys included, and
\* the writer's value for the writer-set keys the caller does not name; the
\* sidecar holds the same merged envelope except for the keys caminho_arquivo
\* and nome_arquivo, which are the path and the name of the record file
\* whatever the caller gave for them.
C20_EnvelopeMesclado ==
    (retorno.op = "armazenar" /\ ~retorno.erro) =>
        /\ EnvelopeMesclado
        /\ SidecarDe(RegistroDoPedido) \in DOMAIN files
        /\ Chaves(SidecarDoPedido) = Chaves(EnvelopeDe(RegistroDoPedido).d) \cup ChavesDoSidecar
        /\ \A k \in Chaves(EnvelopeDe(RegistroDoPedido).d) \ ChavesDoSidecar :
               PyEq(Valor(SidecarDoPedido, k), Valor(EnvelopeDe(RegistroDoPedido).d, k))
        /\ Valor(SidecarDoPedido, <<"caminho", "_", "arquivo">>) = PyStr(retorno.valor)
        /\ Valor(SidecarDoPedido, <<"nome", "_", "arquivo">>) = PyStr(Nome(RegistroDoPedido))

\* a store whose caller named every writer-set key has returned, after one
\* whose caller named the sidecar's keys
C20_Witness ==
    /\ retorno.op = "armazenar" /\ ~retorno.erro
    /\ retorno.pedido.metadados_adicionais = ExtraEnvelope
    /\ \E h \in historico : h.pedido.metadados_adicionais = ExtraNome

\* ---------------------------------------------------------------- C21
\* json.dumps(dados) raises: the payload holds a value json has no encoding
\* for, or a reference to itself
RecusadoPeloCodificador(dados) == ~Codificar(dados, FALSE, FALSE, FALSE).ok

\* the payload cannot be converted to the stored text form: json.dumps
\* rejects it, or its JSON text holds a character UTF-8 cannot encode
NaoSerializavel(dados) ==
    \/ RecusadoPeloCodificador(dados)
    \/ ~utf8_ok(Codificar(dados, TRUE, FALSE, TRUE).txt)

\* C21 as stated - serialization failure is fatal and leaves nothing behind:
\* a store call whose payload cannot be serialized, on a file system that
\* refuses nothing, raises and creates or changes no file in the raw zone or
\* in the metadata zone.
C21_NadaFica ==
    [][ ( /\ nArmazenar' = nArmazenar + 1
          /\ retorno'.falha = SemFalha
          /\ NaoSerializavel(retorno'.pedido.dados) ) =>
            /\ retorno'.erro
            /\ files' = files
      ]_vars

\* the part of C21 the code keeps: the call raises, and when it is json.dumps
\* that rejects the payload (lines 125-126, before the record file is opened)
\* no file is created or changed
C21_SempreFatal ==
    [][ (nArmazenar' = nArmazenar + 1 /\ NaoSerializavel(retorno'.pedido.dados)) =>
            /\ retorno'.erro
            /\ RecusadoPeloCodificador(retorno'.pedido.dados) => files' = files
      ]_vars

\* a store of a payload with a lone surrogate has raised on line 137 and the
\* record file of the call holds the beginning of the record
C21_Witness ==
    /\ retorno.op = "armazenar" /\ retorno.erro
    /\ retorno.pedido.dados = DadosSub
    /\ retorno.falha = SemFalha /\ retorno.linha = 137
    /\ RegistroDoPedido \in DOMAIN files
    /\ ~json_load(files[RegistroDoPedido]).ok
    /\ SidecarDe(RegistroDoPedido) \notin DOMAIN files

\* ---------------------------------------------------------------- C22
\* the year, month and day segments of a day directory
Segmentos(q) == <<Nome(Pai(Pai(q))), Nome(Pai(q)), Nome(q)>>

\* segments that are numbers and name no date: month 13, 30 February
DatasImpossiveis ==
    { << <<"ano", "=", "2", "0", "2", "4">>, <<"mes", "=", "1", "3">>, <<"dia", "=", "0", "1">> >>,
      << <<"ano", "=", "2", "0", "2", "4">>, <<"mes", "=", "0", "2">>, <<"dia", "=", "3", "0">> >> }

\* segments with a day that is not a number
NaoNumericas ==
    { << <<"ano", "=", "2", "0", "2", "4">>, <<"mes", "=", "0", "1">>, <<"dia", "=", "xx">> >> }

\* the day directories of the raw zone that no calendar date names
ParticoesInvalidas(D) ==
    {q \in ParticoesDia(D) : Segmentos(q) \in DatasImpossiveis \cup NaoNumericas}

\* the cleanup step treated every day directory a date names by its date
ValidasProcessadas ==
    \A q \in ParticoesDia(dirs) :
        EntradaDe(q) # {} =>
            /\ q \notin dirs' <=> DataDaParticao(q) < now(agora).dia - retorno'.dias_retencao
            /\ q \in dirs' => Arvore(dirs', files', q) = Arvore(dirs, files, q)

\* C22 as stated - invalid partition dates are skipped: a cleanup that meets
\* a raw-zone day directory whose segments do not form a calendar date (a
\* non-numeric segment, month 13, 30 February) does not delete it, does not
\* raise, and processes every remaining partition.
C22_InvalidasIgnoradas ==
    [][ (nLimpezas' = nLimpezas + 1 /\ ParticoesInvalidas(dirs) # {}) =>
            /\ ~retorno'.erro
            /\ \A q \in ParticoesInvalidas(dirs) :
                   Arvore(dirs', files', q) = Arvore(dirs, files, q)
            /\ ValidasProcessadas
      ]_vars

\* the part of C22 the code keeps: no such directory is ever deleted, and when
\* every segment met is a number (month 13, 30 February) the cleanup returns
\* and has processed every other partition
C22_ImpossiveisIgnoradas ==
    [][ (nLimpezas' = nLimpezas + 1 /\ ParticoesInvalidas(dirs) # {}) =>
            /\ \A q \in ParticoesInvalidas(dirs) :
                   Arvore(dirs', files', q) = Arvore(dirs, files, q)
            /\ (\A q \in ParticoesInvalidas(dirs) : Segmentos(q) \in DatasImpossiveis) =>
                   (~retorno'.erro /\ ValidasProcessadas)
            /\ (\E q \in ParticoesInvalidas(dirs) : Segmentos(q) \in NaoNumericas) =>
                   retorno'.erro
      ]_vars

\* a cleanup has raised on a lake whose raw zone holds a day directory dia=xx
\* beside a partition older than the cutoff, which it left in place
C22_Witness ==
    /\ retorno.op = "limpar" /\ retorno.erro
    /\ \E q \in ParticoesInvalidas(dirs) : Segmentos(q) \in NaoNumericas
    /\ \E q \in ParticoesDia(dirs) :
           EntradaDe(q) # {} /\ DataDaParticao(q) < retorno.valor.data_corte

\* ---------------------------------------------------------------- C23
\* the record file a store call with request p writes at clock reading ts
RegistroDe(p, ts) ==
    zona_raw \o << p.endpoint,
                   <<"ano", "=">> \o NoCalendario(p.data_negocio).ano,
                   <<"mes", "=">> \o NoCalendario(p.data_negocio).mes,
                   <<"dia", "=">> \o NoCalendario(p.data_negocio).dia,
                   <<"loja", "=">> \o p.id_loja,
                   p.endpoint \o <<"_">> \o p.id_loja \o <<"_">>
                       \o NoCalendario(ts.dia).ano \o NoCalendario(ts.dia).mes
                       \o NoCalendario(ts.dia).dia \o <<"_">> \o Relogio(ts.seg)
                       \o <<".", "json">> >>

\* both writers are past their last step
Terminados == escritores # <<>> /\ \A i \in DOMAIN escritores : escritores[i].pc = "fim"

\* the record file of writer i exists and holds the whole record of writer i
RegistroCompleto(i) ==
    LET R == RegistroDe(escritores[i].pedido, escritores[i].ts)
    IN  /\ R \in DOMAIN files
        /\ json_load(files[R]).ok
        /\ Chaves(json_load(files[R]).v.d) = {<<"metadados">>, <<"dados">>}
        /\ PyEq(Valor(json_load(files[R]).v.d, <<"dados">>), escritores[i].pedido.dados)
        /\ escritores[i].valor = str_path(R)

\* no step of a writer has raised
NenhumErro == \A i \in DOMAIN escritores : ~escritores[i].erro

\* the two writers write one and the same record file
MesmoRegistro ==
    RegistroDe(escritores[1].pedido, escritores[1].ts)
        = RegistroDe(escritores[2].pedido, escritores[2].ts)

\* C23 as stated - concurrent writers do not lose records: in every
\* interleaving of the steps of two store calls no step fails, both calls
\* return, and afterwards there are two record files, each with the complete
\* content of its own call.
C23_DoisRegistros ==
    /\ NenhumErro
    /\ Terminados => (~MesmoRegistro /\ RegistroCompleto(1) /\ RegistroCompleto(2))

\* the part of C23 the code keeps: in every interleaving no step fails (the
\* shared directory creation included) and both calls return the path of an
\* existing record file; when the two calls differ in endpoint, store id,
\* business date or ingestion second, these are two files, each with the
\* complete content of its own call
C23_RegistrosDistintos ==
    /\ NenhumErro
    /\ Terminados =>
          /\ \A i \in DOMAIN escritores :
                 /\ RegistroDe(escritores[i].pedido, escritores[i].ts) \in DOMAIN files
                 /\ escritores[i].valor
                        = str_path(RegistroDe(escritores[i].pedido, escritores[i].ts))
          /\ ~MesmoRegistro => (RegistroCompleto(1) /\ RegistroCompleto(2))

\* two calls for different stores of one new endpoint have returned; they read
\* the clock in the same second, and an os.mkdir of one of them found a
\* directory the other had created in the meantime
C23_Witness ==
    /\ Terminados /\ NenhumErro
    /\ ~MesmoRegistro
    /\ escritores[1].ts = escritores[2].ts
    /\ escritores[1].pedido.endpoint = getMenu /\ escritores[2].pedido.endpoint = getMenu
    /\ \E i \in DOMAIN escritores : escritores[i].corrida
    /\ RegistroCompleto(1) /\ RegistroCompleto(2)

\* ---------------------------------------------------------------- C24
\* the step is a construction
PassoDeConstrucao ==
    /\ retorno'.op = "construir"
    /\ agora' = agora /\ nArmazenar' = nArmazenar /\ nLimpezas' = nLimpezas

\* the example partitions of the day d, written out
ParticoesExemplo(d) ==
    { <<caminho_base[1], caminho_base[2], z, e,
        <<"ano", "=">> \o NoCalendario(d).ano,
        <<"mes", "=">> \o NoCalendario(d).mes,
        <<"dia", "=">> \o NoCalendario(d).dia>> :
          z \in {<<"dados", "_", "brutos">>, <<"dados", "_", "processados">>},
          e \in endpoints_api }

\* the file system refuses a directory that is part of an example partition
\* and that the construction has to create
ExemploRecusado ==
    /\ retorno'.recusada \notin dirs
    /\ \E q \in ParticoesExemplo(retorno'.hoje) :
           retorno'.recusada \in Prefixos(q) /\ Len(retorno'.recusada) >= Len(q) - 3

\* the six zone directories and the example partitions of the day exist
LagoCriado(D, d) ==
    /\ \A n \in NomesDasZonas : PastaDaZona(n) \in D
    /\ ParticoesExemplo(d) \subseteq D

\* C24 as stated - construction is robust to bootstrap failure: a construction
\* creates the six zone directories and the example partitions of the current
\* date, and a failure while creating an example partition does not make it
\* fail.
C24_ConstrucaoRobusta ==
    [][ PassoDeConstrucao =>
          /\ retorno'.recusada = <<>> => (~retorno'.erro /\ LagoCriado(dirs', retorno'.hoje))
          /\ ExemploRecusado =>
                 (~retorno'.erro /\ \A n \in NomesDasZonas : PastaDaZona(n) \in dirs')
      ]_vars

\* the part of C24 the code keeps: on a file system that refuses nothing the
\* construction returns with the six zones and the example partitions of the
\* current date in place; a refused directory of an example partition makes
\* it raise
C24_ConstrucaoSemFalha ==
    [][ PassoDeConstrucao =>
          /\ retorno'.recusada = <<>> => (~retorno'.erro /\ LagoCriado(dirs', retorno'.hoje))
          /\ ExemploRecusado => retorno'.erro
      ]_vars

\* the first construction on an empty base path has raised on an example
\* partition of the processed zone, which left the zones after it uncreated
C24_Witness ==
    /\ retorno.op = "construir" /\ retorno.erro
    /\ ~gerenciador
    /\ Len(retorno.recusada) > 4
    /\ retorno.recusada[3] = <<"dados", "_", "processados">>
    /\ PastaDaZona(<<"dados", "_", "brutos">>) \in dirs
    /\ PastaDaZona(<<"temporario">>) \notin dirs

\* ---------------------------------------------------------------- C30
\* the directories a construction on day d may create: the base path, the
\* zones, and the example partitions of d with the directories above them
PastasDoConstrutor(d) ==
    {<<caminho_base[1]>>, <<caminho_base[1], caminho_base[2]>>}
    \cup {PastaDaZona(n) : n \in NomesDasZonas}
    \cup UNION {{x \in Prefixos(q) : Len(x) > 3} : q \in ParticoesExemplo(d)}

\* C30 - re-initialization preserves data: a construction over a base path,
\* whether it returns or raises, leaves every directory and every file
\* (record files and sidecars included) in place with unchanged content, and
\* adds only directories of the lake's structure that were missing.
C30_ReconstrucaoPreserva ==
    [][ PassoDeConstrucao =>
          /\ dirs \subseteq dirs'
          /\ files' = files
          /\ (dirs' \ dirs) \subseteq PastasDoConstrutor(retorno'.hoje)
          /\ historico' = historico
      ]_vars

\* a construction has returned over a lake that holds a record and its
\* sidecar, on the day after the first one: the example partitions of both
\* days exist
C30_Witness ==
    /\ retorno.op = "construir" /\ ~retorno.erro
    /\ retorno.hoje = Dia3
    /\ \E h \in historico : Vivo(h) /\ SidecarDe(h.caminho) \in Sidecars
    /\ ParticoesExemplo(Dia3) \subseteq dirs
    /\ \E q \in ParticoesExemplo(Dia2) : q \in dirs

\* ---------------------------------------------------------------- C25
\* the record file a returned record was read from
ArquivoDe(rec) ==
    CHOOSE f \in DOMAIN files : str_path(f) = Valor(rec.d, chave_caminho).s

\* the business day of the day directory the record was read from
DiaDe(rec) == DataDaParticao(Pai(Pai(ArquivoDe(rec))))

\* the store directory the record was read from
PastaDaLojaDe(rec) == Pai(ArquivoDe(rec))

\* C25 - result order: in the list buscar_dados returns, every record of an
\* earlier day of the period comes before every record of a later day, and
\* the records of one store directory are contiguous.
C25_OrdemDoResultado ==
    (retorno.op = "buscar" /\ ~retorno.erro) =>
        LET v == retorno.valor
        IN  /\ \A i \in 1..Len(v), j \in 1..Len(v) :
                   DiaDe(v[i]) < DiaDe(v[j]) => i < j
            /\ \A i \in 1..Len(v), j \in 1..Len(v), k \in 1..Len(v) :
                   (i < j /\ j < k /\ PastaDaLojaDe(v[i]) = PastaDaLojaDe(v[k]))
                       => PastaDaLojaDe(v[j]) = PastaDaLojaDe(v[i])

\* a query over two days has returned four records: one of the first day and
\* three of the second, two of them of one store and one of another
C25_Witness ==
    /\ retorno.op = "buscar" /\ ~retorno.erro
    /\ Len(retorno.valor) = 4
    /\ Cardinality({DiaDe(retorno.valor[i]) : i \in 1..4}) = 2
    /\ Cardinality({PastaDaLojaDe(retorno.valor[i]) : i \in 1..4}) = 3
    /\ Cardinality({ArquivoDe(retorno.valor[i]) : i \in 1..4}) = 4

\* ---------------------------------------------------------------- C26
\* the record files stored for the days of the period of the last query
ArquivosDoPeriodo ==
    {str_path(h.caminho) :
        h \in {x \in historico : /\ Vivo(x)
                                 /\ x.pedido.endpoint = retorno.consulta.endpoint
                                 /\ retorno.consulta.data_inicio <= x.pedido.data_negocio
                                 /\ x.pedido.data_negocio <= retorno.consulta.data_fim}}

\* the query returned, with each record of each day of its period once
CadaDiaUmaVez ==
    /\ ~retorno.erro
    /\ CaminhosDe(retorno.valor) = ArquivosDoPeriodo
    /\ Len(retorno.valor) = Cardinality(ArquivosDoPeriodo)

\* C26 as stated - query termination: for every data_inicio and data_fim,
\* buscar_dados returns after visiting each day of [data_inicio, data_fim]
\* exactly once (no day when data_inicio > data_fim), including when data_fim
\* is the largest representable date.
C26_Termina ==
    retorno.op = "buscar" => CadaDiaUmaVez

\* the part of C26 the code keeps: a query whose period is empty or ends
\* before the largest representable date returns with each day visited once;
\* a query whose period reaches the largest representable date raises
C26_TerminaAntesDoUltimoDia ==
    retorno.op = "buscar" =>
        IF retorno.consulta.data_inicio <= retorno.consulta.data_fim
           /\ retorno.consulta.data_fim = DiaMax
        THEN retorno.erro
        ELSE CadaDiaUmaVez

\* a query for the largest representable date alone has raised although a
\* record is stored for that day; before that, nothing had failed
C26_Witness ==
    /\ retorno.op = "buscar" /\ retorno.erro
    /\ retorno.consulta.data_inicio = DiaMax /\ retorno.consulta.data_fim = DiaMax
    /\ \E h \in historico : Vivo(h) /\ h.pedido.data_negocio = DiaMax
    /\ nSucessos = nArmazenar

\* ---------------------------------------------------------------- C27
\* the calls that only read
Leituras == {"buscar", "estatisticas", "esquemas"}

\* C27 - read paths are read-only: a step of buscar_dados,
\* obter_estatisticas_data_lake or listar_esquemas_disponiveis leaves the
\* whole tree under the base path as it was: no file or directory is created,
\* modified or deleted, whatever the arguments and the state.
C27_SomenteLeitura ==
    [][ (retorno'.op \in Leituras /\ agora' = agora) =>
            /\ dirs' = dirs
            /\ files' = files
            /\ Arvore(dirs', files', caminho_base) = Arvore(dirs, files, caminho_base)
      ]_vars

\* a query has returned two records of a lake whose raw and metadata zones
\* hold files, after a cleanup removed nothing of them
C27_Witness ==
    /\ retorno.op = "buscar" /\ ~retorno.erro
    /\ Len(retorno.valor) = 2
    /\ \A h \in historico : Vivo(h) /\ SidecarDe(h.caminho) \in Sidecars
    /\ nLimpezas = 1

\* ---------------------------------------------------------------- C28
\* <metadata zone>/<endpoint>/meta_<endpoint>_<store>_<YYYYMMDD>_<HHMMSS>.json,
\* written out from the endpoint, the store id and the second of ingestion
SidecarEscrito(p, ts) ==
    zona_metadata \o
    << p.endpoint,
       <<"meta", "_">> \o p.endpoint \o <<"_">> \o p.id_loja \o <<"_">>
           \o NoCalendario(ts.dia).ano \o NoCalendario(ts.dia).mes \o NoCalendario(ts.dia).dia
           \o <<"_">> \o Relogio(ts.seg) \o <<".", "json">> >>

\* the stores that returned before the last one, for its endpoint and store
\* and in its second, with another business date, whose record file no other
\* call has touched since
MesmoSegundoOutraData ==
    {h \in historico : /\ h.pedido.endpoint = retorno.pedido.endpoint
                       /\ h.pedido.id_loja = retorno.pedido.id_loja
                       /\ h.ts = retorno.ts
                       /\ h.pedido.data_negocio # retorno.pedido.data_negocio
                       /\ Vivo(h)}

\* C28 - the sidecar name depends on the endpoint, the store id and the second
\* of ingestion only, not on the business date: two records stored for the
\* same endpoint and store in the same second with different business dates
\* are two record files with one sidecar, which holds the envelope of the
\* later call.
C28_SidecarSemDataDeNegocio ==
    (retorno.op = "armazenar" /\ ~retorno.erro) =>
        LET R == Barra(<<>>, retorno.valor)
            S == SidecarEscrito(retorno.pedido, retorno.ts)
        IN  /\ S \in Sidecars
            /\ S = SidecarDe(R)
            /\ EspelhaRegistro(S, R)
            /\ \A h \in MesmoSegundoOutraData :
                   /\ h.caminho # R /\ R \in Registros /\ h.caminho \in Registros
                   /\ SidecarDe(h.caminho) = S
                   /\ ~EspelhaRegistro(S, h.caminho)
                   /\ Cardinality({x \in Sidecars : x[Len(zona_metadata) + 1] = h.pedido.endpoint
                                       /\ \E f \in {R, h.caminho} : x = SidecarDe(f)}) = 1

\* two stores of one second for one endpoint and store with different
\* business dates have returned: two record files, one sidecar
C28_Witness ==
    /\ retorno.op = "armazenar" /\ ~retorno.erro
    /\ MesmoSegundoOutraData # {}
    /\ nSucessos = 2 /\ nLimpezas = 0
    /\ Cardinality(Registros) = 2
    /\ Cardinality(Sidecars) = 1

\* ---------------------------------------------------------------- C29
\* the queries made with the empty string as store id
ConsultasComIdVazio == {c \in Consultas : c.id_loja = <<loja_vazia>>}

\* the record files of the stores of the days of a query, from the stores
\* that returned
DeTodasAsLojas(c) ==
    {str_path(h.caminho) :
        h \in {x \in historico : /\ Vivo(x)
                                 /\ x.pedido.endpoint = c.endpoint
                                 /\ x.pedido.data_negocio \in c.data_inicio..c.data_fim}}

\* C29 - an empty-string store id given to buscar_dados is no filter: the call
\* returns what the same call without a store id returns, the records of
\* every store of each day of the period, and not only those of the store
\* whose id is the empty string.
C29_IdVazioSemFiltro ==
    \A c \in ConsultasComIdVazio :
        /\ buscar_dados(dirs, files, c.endpoint, c.data_inicio, c.data_fim, <<loja_vazia>>)
               = buscar_dados(dirs, files, c.endpoint, c.data_inicio, c.data_fim, <<>>)
        /\ \A r \in buscar_dados(dirs, files, c.endpoint, c.data_inicio, c.data_fim, <<loja_vazia>>) :
               /\ ~r.erro
               /\ CaminhosDe(r.valor) = DeTodasAsLojas(c)

\* a query has returned two records of one day, one of the store whose id is
\* the empty string and one of another store
C29_Witness ==
    /\ retorno.op = "buscar" /\ ~retorno.erro
    /\ Len(retorno.valor) = 2
    /\ \E h1 \in historico, h2 \in historico :
           /\ Vivo(h1) /\ Vivo(h2)
           /\ h1.pedido.id_loja = loja_vazia /\ h2.pedido.id_loja # loja_vazia
           /\ h1.pedido.data_negocio = h2.pedido.data_negocio
           /\ h1.pedido.endpoint = h2.pedido.endpoint
           /\ CaminhosDe(retorno.valor) = {str_path(h1.caminho), str_path(h2.caminho)}

====
